---- MODULE Spec2Model ----
(***************************************************************************)
(* A model of rkv: the safe-mode engine (src/backend/impl_safe), the       *)
(* environment manager (src/manager.rs) and the store-level read path      *)
(* over the three backends.                                                *)
(*                                                                         *)
(* Keys and values are byte strings in the program; here they are small    *)
(* integers whose numeric order stands for the byte-lexicographic order.   *)
(* An Option is a sequence of length 0 (None) or 1 (Some).                 *)
(***************************************************************************)
EXTENDS Integers, Sequences, FiniteSets, TLC

\* Bounds of the model.
MaxCalls == 4

DbNames == {"a", "b"}
NameOrder == <<"a", "b">>
Keys == {1, 2}
Values == {1, 2}
Writers == {"w1", "w2"}
Readers == {"r1"}

None == <<>>
Some(x) == <<x>>

DUP_SORT == "DUP_SORT"
\* the stores the application creates: a Single store "a" and a Multi store "b"
StoreChoices == {<<"a", {}>>, <<"b", {DUP_SORT}>>}

\* data.safe.bin: absent, or a file holding bytes
NoFile == <<>>
File(bytes) == <<bytes>>

VARIABLES
    dbs,      \* EnvironmentImpl.dbs: name index, a partial function name -> id
    arena,    \* EnvironmentImpl.arena: sequence of DatabaseImpl snapshots, id = index
    disk,     \* data.safe.bin: NoFile or File(bytes)
    wst,      \* per write transaction: "idle" or "live"
    wsnap,    \* RwTransactionImpl.snapshots of a live write transaction
    rst,      \* per read transaction: "idle" or "live"
    rsnap,    \* RoTransactionImpl.snapshots of a live read transaction
    wbase,    \* history: the snapshots a write transaction took at begin
    wlog,     \* history: the successful put/del/clear operations of a write transaction
    serial,   \* history: the successfully committed logs applied in commit order
    rbase,    \* history: the value of serial when the read transaction began
    last,     \* history: the last call, when it ended a write transaction or opened the environment
    calls     \* number of calls so far that began a transaction or wrote in one

safeVars == <<dbs, arena, disk, wst, wsnap, rst, rsnap, wbase, wlog, serial, rbase, last, calls>>

VARIABLES
    stores,    \* Manager.stores: BTreeMap from canonical path to handle
    rkvs,      \* every Rkv a constructor has built: the path and capacity it was given
    ctorRuns,  \* history: per path handed to a constructor, how often one was invoked
    given,     \* history: per canonical path, the handles calls have returned for it
    mlast,     \* history: the last call, with the map as it was before the call
    mcalls     \* number of calls so far

mgrVars == <<stores, rkvs, ctorRuns, given, mlast, mcalls>>

VARIABLES
    backend,   \* the backend the environment was opened on
    table,     \* the committed contents of one Single store: key -> tagged bytes
    glast      \* history: the last store call and its result

getVars == <<backend, table, glast>>

VARIABLES
    oreaders,  \* the threads that hold a live read transaction of the LMDB environment
    owriter,   \* the thread that holds the live write transaction, if any
    ostores,   \* the names of the databases the LMDB environment has
    olast,     \* history: the last open or open_or_create and its result
    ocalls     \* number of calls made so far

openVars == <<oreaders, owriter, ostores, olast, ocalls>>

VARIABLES
    clast      \* history: the last call of the value codec, its input and its result

codecVars == <<clast>>

\* the migrator: the source environment, the destination environment and the
\* last call of Migrator::migrate_*
VARIABLES msrc, mdst, mig
migVars == <<msrc, mdst, mig>>

\* the SQL backend: the connections in the channel, what each thread is doing
\* and the last call
VARIABLES sqchan, sqtx, sqlast, sqlog
sqlVars == <<sqchan, sqtx, sqlast, sqlog>>

\* the environment builders: what the file system holds at each path and the
\* last call of open
VARIABLES fsys, blast
bldVars == <<fsys, blast>>

\* the opening of stores on each backend: the safe-mode name index and arena,
\* the databases of the LMDB environment, the tables of the SQL connection,
\* and the last call
VARIABLES sdbs, sarena, lnames, qtables, slast
stVars == <<sdbs, sarena, lnames, qtables, slast>>

\* threads sharing Manager::singleton(): the guard each thread holds, the
\* manager's map, the Rkvs built, each thread's last result and the path of
\* the get_or_create a thread is in
VARIABLES tpc, tstores, trkvs, tres, targ
conVars == <<tpc, tstores, trkvs, tres, targ>>

\* the safe-mode environment's locks: the point of its call each thread is at,
\* each thread's transaction, the databases a commit has still to replace,
\* the arena, the name index, the file, the arena as the last completed commit
\* or create_db left it and, for each thread, the arenas so left while its
\* transaction was being built
VARIABLES lpc, ltxn, lpend, larena, ldbs, ldisk, lbase, lseen
lockVars == <<lpc, ltxn, lpend, larena, ldbs, ldisk, lbase, lseen>>

vars == <<safeVars, mgrVars, getVars, openVars, codecVars, migVars, sqlVars, bldVars, stVars, conVars, lockVars>>

\* what the actions of one component leave alone: every other component
exceptSafe == <<mgrVars, getVars, openVars, codecVars, migVars, sqlVars, bldVars, stVars, conVars, lockVars>>
exceptMgr == <<safeVars, getVars, openVars, codecVars, migVars, sqlVars, bldVars, stVars, conVars, lockVars>>
exceptGet == <<safeVars, mgrVars, openVars, codecVars, migVars, sqlVars, bldVars, stVars, conVars, lockVars>>
exceptOpen == <<safeVars, mgrVars, getVars, codecVars, migVars, sqlVars, bldVars, stVars, conVars, lockVars>>
exceptCodec == <<safeVars, mgrVars, getVars, openVars, migVars, sqlVars, bldVars, stVars, conVars, lockVars>>
exceptMig == <<safeVars, mgrVars, getVars, openVars, codecVars, sqlVars, bldVars, stVars, conVars, lockVars>>
exceptSql == <<safeVars, mgrVars, getVars, openVars, codecVars, migVars, bldVars, stVars, conVars, lockVars>>
exceptBld == <<safeVars, mgrVars, getVars, openVars, codecVars, migVars, sqlVars, stVars, conVars, lockVars>>
exceptSt == <<safeVars, mgrVars, getVars, openVars, codecVars, migVars, sqlVars, bldVars, conVars, lockVars>>
exceptCon == <<safeVars, mgrVars, getVars, openVars, codecVars, migVars, sqlVars, bldVars, stVars, lockVars>>
exceptLock == <<safeVars, mgrVars, getVars, openVars, codecVars, migVars, sqlVars, bldVars, stVars, conVars>>

EmptyMap == [x \in {} |-> {}]

Upd(m, k, v) == [x \in (DOMAIN m) \cup {k} |-> IF x = k THEN v ELSE m[x]]

(***************************************************************************)
(* database.rs: Snapshot                                                   *)
(***************************************************************************)
Snapshot_new(flags) == [flags |-> flags, map |-> EmptyMap]

MinOf(S) == CHOOSE x \in S : \A y \in S : x <= y

\* self.map.get(key).and_then(|v| v.iter().next())
Snapshot_get(s, key) ==
    IF key \in DOMAIN s.map /\ s.map[key] # {} THEN Some(MinOf(s.map[key])) ELSE None

\* a put_one that forgets to clear the old value set
Snapshot_put_one_NoClear(s, key, value) ==
    [s EXCEPT !.map = [x \in (DOMAIN s.map) \cup {key} |->
        IF x = key THEN (IF key \in DOMAIN s.map THEN s.map[key] ELSE {}) \cup {value}
        ELSE s.map[x]]]

\* and_modify(|_, v| v.clear()).or_insert_with(BTreeSet::new()); values.insert(value)
Snapshot_put_one(s, key, value) == [s EXCEPT !.map = Upd(s.map, key, {value})]

\* a put_dup that replaces the value set as put_one does
Snapshot_put_dup_Replaces(s, key, value) == [s EXCEPT !.map = Upd(s.map, key, {value})]

\* or_insert_with(BTreeSet::new()); values.insert(value)
Snapshot_put_dup(s, key, value) ==
    [s EXCEPT !.map = Upd(s.map, key,
        (IF key \in DOMAIN s.map THEN s.map[key] ELSE {}) \cup {value})]

\* a del_exact that empties the whole value set of the key
Snapshot_del_exact_All(s, key, value) ==
    IF key \notin DOMAIN s.map
    THEN [snap |-> s, ok |-> FALSE]
    ELSE [snap |-> [s EXCEPT !.map[key] = {}], ok |-> value \in s.map[key]]

\* Vacant => None; Occupied => remove value, Some(()) iff it was there
Snapshot_del_exact(s, key, value) ==
    IF key \notin DOMAIN s.map
    THEN [snap |-> s, ok |-> FALSE]
    ELSE [snap |-> [s EXCEPT !.map[key] = @ \ {value}], ok |-> value \in s.map[key]]

\* a del_all that answers Some(()) for every occupied entry, empty or not
Snapshot_del_all_Occupied(s, key) ==
    IF key \notin DOMAIN s.map
    THEN [snap |-> s, ok |-> FALSE]
    ELSE [snap |-> [s EXCEPT !.map[key] = {}], ok |-> TRUE]

\* Vacant => None; Occupied => clear the set, Some(()) iff it was not empty
Snapshot_del_all(s, key) ==
    IF key \notin DOMAIN s.map
    THEN [snap |-> s, ok |-> FALSE]
    ELSE [snap |-> [s EXCEPT !.map[key] = {}], ok |-> s.map[key] # {}]

Snapshot_clear(s) == [s EXCEPT !.map = EmptyMap]

\* flat_map over the keys and each key's values
Snapshot_iter(s) == {p \in (DOMAIN s.map) \X Values : p[2] \in s.map[p[1]]}

(***************************************************************************)
(* environment.rs: serialize / deserialize (bincode of the name -> database *)
(* map).  The bytes are a sequence of entries; a set is written as its      *)
(* elements in ascending order, a map as its (key, values) entries.         *)
(***************************************************************************)
RECURSIVE SortedSeq(_)
SortedSeq(S) == IF S = {} THEN <<>> ELSE <<MinOf(S)>> \o SortedSeq(S \ {MinOf(S)})

SeqToSet(q) == {q[i] : i \in DOMAIN q}

\* an encoder that writes empty flags whatever the database has
EncodeFlags_Dropped(flags) == [dup_sort |-> FALSE]

EncodeFlags(flags) == [dup_sort |-> DUP_SORT \in flags]
DecodeFlags(bits) == IF bits.dup_sort THEN {DUP_SORT} ELSE {}

EncodeMap(m) == [i \in 1..Cardinality(DOMAIN m) |->
                    LET k == SortedSeq(DOMAIN m)[i] IN <<k, SortedSeq(m[k])>>]
DecodeMap(q) == [k \in {q[i][1] : i \in DOMAIN q} |->
                    SeqToSet(q[CHOOSE i \in DOMAIN q : q[i][1] = k][2])]

\* the names of the index in the order the entries are written
NamesIn(d) == SelectSeq(NameOrder, LAMBDA n : n \in DOMAIN d)

\* data = dbs.iter().map(|(name, id)| (name, &arena[*id])); bincode::serialize(&data)
serialize(d, a) ==
    [i \in 1..Len(NamesIn(d)) |->
        LET n == NamesIn(d)[i] IN
        [name |-> n, flags |-> EncodeFlags(a[d[n]].flags), map |-> EncodeMap(a[d[n]].map)]]

\* the orders in which a HashMap of n entries may be iterated
Orders(n) == {p \in [1..n -> 1..n] : \A i, j \in 1..n : p[i] = p[j] => i = j}

\* for (name, db) in data { dbs.insert(name, arena.alloc(db)) }, the decoded
\* entries met in the order `order`
deserialize(bytes, order) ==
    [arena |-> [i \in 1..Len(bytes) |->
                    [flags |-> DecodeFlags(bytes[order[i]].flags),
                     map |-> DecodeMap(bytes[order[i]].map)]],
     dbs |-> [n \in {bytes[i].name : i \in DOMAIN bytes} |->
                    CHOOSE i \in 1..Len(bytes) : bytes[order[i]].name = n]]

\* the name -> (flags, contents) view of an environment
View(d, a) == [n \in DOMAIN d |-> a[d[n]]]

(***************************************************************************)
(* transaction.rs                                                          *)
(***************************************************************************)
\* env.dbs()?.iter().map(|(_, db)| (*db.id(), db.snapshot())).collect()
take_snapshots(a) == a

\* RwTransactionImpl::put: put_dup in a DUP_SORT database, put_one otherwise
txn_put(snaps, id, key, value) ==
    [snaps EXCEPT ![id] = IF DUP_SORT \in snaps[id].flags
                          THEN Snapshot_put_dup(@, key, value)
                          ELSE Snapshot_put_one(@, key, value)]

\* a del that removes the exact pair whenever a value is given, whatever the
\* flags of the database
txn_del_Exact(snaps, id, key, value) ==
    IF value # None
    THEN Snapshot_del_exact(snaps[id], key, value[1])
    ELSE Snapshot_del_all(snaps[id], key)

\* RwTransactionImpl::del: del_exact for Some(value) in a DUP_SORT database,
\* del_all otherwise
txn_del(snaps, id, key, value) ==
    IF value # None /\ DUP_SORT \in snaps[id].flags
    THEN Snapshot_del_exact(snaps[id], key, value[1])
    ELSE Snapshot_del_all(snaps[id], key)

\* RwTransactionImpl::clear_db
txn_clear(snaps, id) == [snaps EXCEPT ![id] = Snapshot_clear(@)]

\* RwTransactionImpl::get / RoTransactionImpl::get
txn_get(snaps, id, key) == Snapshot_get(snaps[id], key)

\* RwTransactionImpl::commit, the loop: every captured snapshot replaces the
\* current one of its database
commit_replace(a, snaps) ==
    [id \in 1..Len(a) |-> IF id \in DOMAIN snaps THEN snaps[id] ELSE a[id]]

\* an abort that publishes the snapshots as commit does
abort_effect_Publishes(a, snaps) ==
    [id \in 1..Len(a) |-> IF id \in DOMAIN snaps THEN snaps[id] ELSE a[id]]

\* RwTransactionImpl::abort: noop
abort_effect(a, snaps) == a

\* history: one logged operation applied to a sequence of snapshots
ApplyOp(snaps, e) ==
    IF e.op = "put" THEN txn_put(snaps, e.db, e.key, e.val[1])
    ELSE IF e.op = "del" THEN [snaps EXCEPT ![e.db] = txn_del(snaps, e.db, e.key, e.val).snap]
    ELSE txn_clear(snaps, e.db)

RECURSIVE ApplyLog(_, _)
ApplyLog(snaps, log) ==
    IF log = <<>> THEN snaps ELSE ApplyLog(ApplyOp(snaps, Head(log)), Tail(log))

(***************************************************************************)
(* The safe-mode environment and its transactions as a state machine.      *)
(***************************************************************************)
EmptyIndex == [x \in {} |-> 0]

\* a call that ended a write transaction or opened the environment: its caller,
\* its result and the number of writes the transaction had made; NoCall after
\* any other call
Call(op, who, res, n) == [op |-> op, who |-> who, res |-> res, n |-> n]
NoCall == Call("other", "env", "ok", 0)


SafeInit ==
    /\ dbs = EmptyIndex
    /\ arena = <<>>
    /\ disk = NoFile
    /\ wst = [w \in Writers |-> "idle"]
    /\ wsnap = [w \in Writers |-> <<>>]
    /\ rst = [r \in Readers |-> "idle"]
    /\ rsnap = [r \in Readers |-> <<>>]
    /\ wbase = [w \in Writers |-> <<>>]
    /\ wlog = [w \in Writers |-> <<>>]
    /\ serial = <<>>
    /\ rbase = [r \in Readers |-> <<>>]
    /\ last = Call("open", "env", "ok", 0)
    /\ calls = 0

\* a create_db that also writes the file, as a create_db run in a committed
\* write transaction would
CreateDb_Persists(name, flags) ==
    /\ IF name \in DOMAIN dbs
       THEN UNCHANGED <<dbs, arena, serial>>
       ELSE /\ arena' = Append(arena, Snapshot_new(flags))
            /\ dbs' = Upd(dbs, name, Len(arena) + 1)
            /\ serial' = Append(serial, Snapshot_new(flags))
    /\ disk' = File(serialize(dbs', arena'))
    /\ last' = NoCall
    /\ UNCHANGED <<wst, wsnap, rst, rsnap, wbase, wlog, rbase, calls>>
    /\ UNCHANGED exceptSafe

\* EnvironmentImpl::create_db: dbs.entry(key).or_insert_with(|| arena.alloc(..))
CreateDb(name, flags) ==
    /\ IF name \in DOMAIN dbs
       THEN UNCHANGED <<dbs, arena, serial>>
       ELSE /\ arena' = Append(arena, Snapshot_new(flags))
            /\ dbs' = Upd(dbs, name, Len(arena) + 1)
            /\ serial' = Append(serial, Snapshot_new(flags))
    /\ last' = NoCall
    /\ UNCHANGED <<disk, wst, wsnap, rst, rsnap, wbase, wlog, rbase, calls>>
    /\ UNCHANGED exceptSafe

\* EnvironmentImpl::begin_rw_txn -> RwTransactionImpl::new
BeginRw(w) ==
    /\ wst[w] = "idle"
    /\ calls < MaxCalls
    /\ wst' = [wst EXCEPT ![w] = "live"]
    /\ wsnap' = [wsnap EXCEPT ![w] = take_snapshots(arena)]
    /\ wbase' = [wbase EXCEPT ![w] = take_snapshots(arena)]
    /\ wlog' = [wlog EXCEPT ![w] = <<>>]
    /\ calls' = calls + 1
    /\ last' = NoCall
    /\ UNCHANGED <<dbs, arena, disk, rst, rsnap, serial, rbase>>
    /\ UNCHANGED exceptSafe

\* RwTransactionImpl::put
RwPut(w, id, key, value) ==
    /\ wst[w] = "live"
    /\ id \in DOMAIN wsnap[w]
    /\ calls < MaxCalls
    /\ wsnap' = [wsnap EXCEPT ![w] = txn_put(@, id, key, value)]
    /\ wlog' = [wlog EXCEPT ![w] =
                    Append(@, [op |-> "put", db |-> id, key |-> key, val |-> Some(value)])]
    /\ calls' = calls + 1
    /\ last' = NoCall
    /\ UNCHANGED <<dbs, arena, disk, wst, rst, rsnap, wbase, serial, rbase>>
    /\ UNCHANGED exceptSafe

\* RwTransactionImpl::del; a delete that returns KeyValuePairNotFound is not logged
RwDel(w, id, key, value) ==
    /\ wst[w] = "live"
    /\ id \in DOMAIN wsnap[w]
    /\ calls < MaxCalls
    /\ LET r == txn_del(wsnap[w], id, key, value) IN
        /\ wsnap' = [wsnap EXCEPT ![w][id] = r.snap]
        /\ wlog' = [wlog EXCEPT ![w] =
                        IF r.ok
                        THEN Append(@, [op |-> "del", db |-> id, key |-> key, val |-> value])
                        ELSE @]
    /\ calls' = IF txn_del(wsnap[w], id, key, value).ok THEN calls + 1 ELSE calls
    /\ last' = NoCall
    /\ UNCHANGED <<dbs, arena, disk, wst, rst, rsnap, wbase, serial, rbase>>
    /\ UNCHANGED exceptSafe

\* RwTransactionImpl::clear_db
RwClear(w, id) ==
    /\ wst[w] = "live"
    /\ id \in DOMAIN wsnap[w]
    /\ calls < MaxCalls
    /\ wsnap' = [wsnap EXCEPT ![w] = txn_clear(@, id)]
    /\ wlog' = [wlog EXCEPT ![w] =
                    Append(@, [op |-> "clear", db |-> id, key |-> 0, val |-> None])]
    /\ calls' = calls + 1
    /\ last' = NoCall
    /\ UNCHANGED <<dbs, arena, disk, wst, rst, rsnap, wbase, serial, rbase>>
    /\ UNCHANGED exceptSafe

\* EnvironmentImpl::write_to_disk: fs::write(&path, self.serialize()?)?; when
\* fs::metadata or fs::write fails the file is left as it was
write_to_disk(d, a, old, io) == IF io = "ok" THEN File(serialize(d, a)) ELSE old

\* RwTransactionImpl::commit: the replace loop, then self.env.write_to_disk()
RwCommit(w, io) ==
    /\ wst[w] = "live"
    /\ arena' = commit_replace(arena, wsnap[w])
    /\ disk' = write_to_disk(dbs, arena', disk, io)
    /\ serial' = IF io = "ok" THEN ApplyLog(serial, wlog[w]) ELSE serial
    /\ wst' = [wst EXCEPT ![w] = "idle"]
    /\ wsnap' = [wsnap EXCEPT ![w] = <<>>]
    /\ wbase' = [wbase EXCEPT ![w] = <<>>]
    /\ wlog' = [wlog EXCEPT ![w] = <<>>]
    /\ last' = Call("commit", w, io, Len(wlog[w]))
    /\ UNCHANGED <<dbs, rst, rsnap, rbase, calls>>
    /\ UNCHANGED exceptSafe

\* RwTransactionImpl::abort, and a drop without commit
RwAbort(w) ==
    /\ wst[w] = "live"
    /\ arena' = abort_effect(arena, wsnap[w])
    /\ wst' = [wst EXCEPT ![w] = "idle"]
    /\ wsnap' = [wsnap EXCEPT ![w] = <<>>]
    /\ wbase' = [wbase EXCEPT ![w] = <<>>]
    /\ wlog' = [wlog EXCEPT ![w] = <<>>]
    /\ last' = Call("abort", w, "ok", Len(wlog[w]))
    /\ UNCHANGED <<dbs, disk, rst, rsnap, serial, rbase, calls>>
    /\ UNCHANGED exceptSafe

\* EnvironmentImpl::begin_ro_txn -> RoTransactionImpl::new
BeginRo(r) ==
    /\ rst[r] = "idle"
    /\ calls < MaxCalls
    /\ rst' = [rst EXCEPT ![r] = "live"]
    /\ rsnap' = [rsnap EXCEPT ![r] = take_snapshots(arena)]
    /\ rbase' = [rbase EXCEPT ![r] = serial]
    /\ calls' = calls + 1
    /\ last' = NoCall
    /\ UNCHANGED <<dbs, arena, disk, wst, wsnap, wbase, wlog, serial>>
    /\ UNCHANGED exceptSafe

\* RoTransactionImpl::abort, and the drop of a reader
RoAbort(r) ==
    /\ rst[r] = "live"
    /\ rst' = [rst EXCEPT ![r] = "idle"]
    /\ rsnap' = [rsnap EXCEPT ![r] = <<>>]
    /\ rbase' = [rbase EXCEPT ![r] = <<>>]
    /\ last' = NoCall
    /\ UNCHANGED <<dbs, arena, disk, wst, wsnap, wbase, wlog, serial, calls>>
    /\ UNCHANGED exceptSafe

\* EnvironmentImpl::sync
Sync(io) ==
    /\ disk' = write_to_disk(dbs, arena, disk, io)
    /\ last' = NoCall
    /\ UNCHANGED <<dbs, arena, wst, wsnap, rst, rsnap, wbase, wlog, serial, rbase, calls>>
    /\ UNCHANGED exceptSafe

\* The environment is dropped (every transaction borrows it, so none is live)
\* and EnvironmentBuilderImpl::open reads the path again: read_from_disk
Reopen(order) ==
    /\ \A w \in Writers : wst[w] = "idle"
    /\ \A r \in Readers : rst[r] = "idle"
    /\ IF disk = NoFile
       THEN /\ arena' = <<>>
            /\ dbs' = EmptyIndex
       ELSE /\ order \in Orders(Len(disk[1]))
            /\ arena' = deserialize(disk[1], order).arena
            /\ dbs' = deserialize(disk[1], order).dbs
    /\ serial' = arena'
    /\ last' = Call("open", "env", "ok", 0)
    /\ UNCHANGED <<disk, wst, wsnap, rst, rsnap, wbase, wlog, rbase, calls>>
    /\ UNCHANGED exceptSafe

SafeNext ==
    \/ \E c \in StoreChoices : CreateDb(c[1], c[2])
    \/ \E w \in Writers : BeginRw(w)
    \/ \E w \in Writers, id \in 1..Cardinality(DbNames), k \in Keys, v \in Values :
            RwPut(w, id, k, v)
    \/ \E w \in Writers, id \in 1..Cardinality(DbNames), k \in Keys,
          v \in {None} \cup {Some(x) : x \in Values} : RwDel(w, id, k, v)
    \/ \E w \in Writers, id \in 1..Cardinality(DbNames) : RwClear(w, id)
    \/ \E w \in Writers, io \in {"ok", "err"} : RwCommit(w, io)
    \/ \E w \in Writers : RwAbort(w)
    \/ \E r \in Readers : BeginRo(r)
    \/ \E r \in Readers : RoAbort(r)
    \/ \E io \in {"ok", "err"} : Sync(io)
    \/ \E order \in Orders(Cardinality(DbNames)) \cup Orders(1) \cup Orders(0) : Reopen(order)

(***************************************************************************)
(* manager.rs: the process-wide registry of open environments.             *)
(* A path is a string; canonicalize resolves it against a fixed file       *)
(* system in which "/d1/." and the symlink "/ln" name the directories      *)
(* "/d1" and "/d2", and "/gone" does not exist.  An Arc<RwLock<Rkv>> is    *)
(* the index of the Rkv in rkvs, so pointer equality is equality of        *)
(* handles.  A Result is <<"ok", value>> or <<"err", error>>.              *)
(***************************************************************************)
MaxMgrCalls == 4

Paths == {"/d1", "/d1/.", "/d2", "/ln", "/gone"}
Capacities == {10, 20}
CtorOutcomes == {"ok", "DirectoryDoesNotExistError", "LmdbError"}

Ok(x) == <<"ok", x>>
Err(e) == <<"err", e>>

\* Path::canonicalize: Some(canonical path), or None for the io::Error
canonicalize(path) ==
    CASE path = "/d1/." -> Some("/d1")
      [] path = "/ln" -> Some("/d2")
      [] path = "/gone" -> None
      [] OTHER -> Some(path)

CanonPaths == {canonicalize(p)[1] : p \in {q \in Paths : canonicalize(q) # None}}

\* Manager::get
Manager_get(st, path) ==
    LET canonical == canonicalize(path) IN
    IF canonical = None THEN Err("IoError")
    ELSE Ok(IF canonical[1] \in DOMAIN st THEN Some(st[canonical[1]]) ELSE None)

\* an entry lookup that finds every entry vacant
Occupied_Never(st, canonical) == FALSE

\* stores.entry(canonical): Entry::Occupied or Entry::Vacant
Occupied(st, canonical) == canonical \in DOMAIN st

\* a Vacant arm that inserts without looking at what f returned
vacant_insert_Unchecked(st, canonical, outcome, handle) == Upd(st, canonical, handle)

\* the Vacant arm: f(..)? returns early on Err, otherwise e.insert(k)
vacant_insert(st, canonical, outcome, handle) ==
    IF outcome = "ok" THEN Upd(st, canonical, handle) ELSE st

MgrCall(op, path, cap, hit, invoked, ctor, res, before) ==
    [op |-> op, path |-> path, cap |-> cap, hit |-> hit, invoked |-> invoked,
     ctor |-> ctor, res |-> res, before |-> before]

MgrInit ==
    /\ stores = EmptyIndex
    /\ rkvs = <<>>
    /\ ctorRuns = [c \in CanonPaths |-> 0]
    /\ given = [c \in CanonPaths |-> {}]
    /\ mlast = MgrCall("new", "/d1", None, FALSE, FALSE, "ok", Ok(None), EmptyIndex)
    /\ mcalls = 0

\* Manager::get(path)
MgrGet(path) ==
    /\ mcalls < MaxMgrCalls
    /\ mcalls' = mcalls + 1
    /\ LET canonical == canonicalize(path)
           res == Manager_get(stores, path)
       IN /\ mlast' = MgrCall("get", path, None,
                              canonical # None /\ Occupied(stores, canonical[1]),
                              FALSE, "ok", res, stores)
          /\ given' = IF res[1] = "ok" /\ res[2] # None
                      THEN [given EXCEPT ![canonical[1]] = @ \cup {res[2][1]}]
                      ELSE given
    /\ UNCHANGED <<stores, rkvs, ctorRuns>>
    /\ UNCHANGED exceptMgr

\* Manager::get_or_create(path, f) when cap = None,
\* Manager::get_or_create_with_capacity(path, capacity, f) when cap = Some(capacity);
\* outcome is what the constructor f returns if it is invoked
MgrGetOrCreate(path, cap, outcome) ==
    /\ mcalls < MaxMgrCalls
    /\ mcalls' = mcalls + 1
    /\ LET canonical == canonicalize(path)
           op == IF cap = None THEN "get_or_create" ELSE "get_or_create_with_capacity"
           handle == Len(rkvs) + 1
       IN IF canonical = None
          THEN /\ mlast' = MgrCall(op, path, cap, FALSE, FALSE, outcome, Err("IoError"), stores)
               /\ UNCHANGED <<stores, rkvs, ctorRuns, given>>
          ELSE IF Occupied(stores, canonical[1])
          THEN /\ mlast' = MgrCall(op, path, cap, TRUE, FALSE, outcome,
                                   Ok(stores[canonical[1]]), stores)
               /\ given' = [given EXCEPT ![canonical[1]] = @ \cup {stores[canonical[1]]}]
               /\ UNCHANGED <<stores, rkvs, ctorRuns>>
          ELSE /\ ctorRuns' = [ctorRuns EXCEPT ![canonical[1]] = @ + 1]
               /\ stores' = vacant_insert(stores, canonical[1], outcome, handle)
               /\ IF outcome = "ok"
                  THEN /\ rkvs' = Append(rkvs, [path |-> canonical[1], capacity |-> cap])
                       /\ given' = [given EXCEPT ![canonical[1]] = @ \cup {handle}]
                       /\ mlast' = MgrCall(op, path, cap, canonical[1] \in DOMAIN stores,
                                           TRUE, outcome, Ok(handle), stores)
                  ELSE /\ mlast' = MgrCall(op, path, cap, canonical[1] \in DOMAIN stores,
                                           TRUE, outcome, Err(outcome), stores)
                       /\ UNCHANGED <<rkvs, given>>
    /\ UNCHANGED exceptMgr

MgrNext ==
    \/ \E path \in Paths : MgrGet(path)
    \/ \E path \in Paths, outcome \in CtorOutcomes : MgrGetOrCreate(path, None, outcome)
    \/ \E path \in Paths, capacity \in Capacities, outcome \in CtorOutcomes :
            MgrGetOrCreate(path, Some(capacity), outcome)

(***************************************************************************)
(* The store-level read path over the three backends: each backend's       *)
(* transaction get, its conversion of the backend error into StoreError    *)
(* and the store's conversion of the outcome into an optional Value.       *)
(* A stored value is the tagged byte string <<tag, payload>>.              *)
(***************************************************************************)
Backends == {"lmdb", "safe", "sqlite"}
GetKeys == {1, 2, 3}
TypeNames == {"Bool", "U64", "I64", "F64", "Instant", "Uuid", "Str", "Json"}
StoredValues == {[type |-> "I64", data |-> 1], [type |-> "Str", data |-> <<104>>]}

\* Type::to_tag
to_tag(type) ==
    CASE type = "Bool" -> 1 [] type = "U64" -> 2 [] type = "I64" -> 3 [] type = "F64" -> 4
      [] type = "Instant" -> 5 [] type = "Uuid" -> 6 [] type = "Str" -> 7 [] type = "Json" -> 8

\* Type::from_primitive
from_primitive(p) ==
    IF \E t \in TypeNames : to_tag(t) = p
    THEN Some(CHOOSE t \in TypeNames : to_tag(t) = p)
    ELSE None

\* bincode: a u64 below 2^31 as eight little-endian bytes
LE8(n) == [i \in 1..8 |-> IF i <= 4 THEN (n \div (256 ^ (i - 1))) % 256 ELSE 0]

\* bincode: an i64 as eight little-endian bytes, two's complement
ser_i64(n) == IF n >= 0 THEN LE8(n) ELSE [i \in 1..8 |-> 255 - LE8(-n - 1)[i]]

\* a number too large for any length or sample value
Huge == 2147483647

\* bincode: the u64 that eight little-endian bytes spell
de_u64(b) ==
    IF b[5] = 0 /\ b[6] = 0 /\ b[7] = 0 /\ b[8] = 0 /\ b[4] < 128
    THEN b[1] + 256 * b[2] + 65536 * b[3] + 16777216 * b[4]
    ELSE Huge

\* bincode: the i64 that eight little-endian bytes spell
de_i64(b) == IF b[8] >= 128 THEN -de_u64([i \in 1..8 |-> 255 - b[i]]) - 1 ELSE de_u64(b)

\* bincode deserialize::<bool>
de_bool(data) ==
    IF Len(data) < 1 THEN Err("UnexpectedEof")
    ELSE IF data[1] = 0 THEN Ok(FALSE)
    ELSE IF data[1] = 1 THEN Ok(TRUE)
    ELSE Err("InvalidBoolEncoding")

\* bincode deserialize::<&[u8]>: a u64 length, then that many bytes
de_bytes(data) ==
    IF Len(data) < 8 THEN Err("UnexpectedEof")
    ELSE IF de_u64(SubSeq(data, 1, 8)) > Len(data) - 8 THEN Err("UnexpectedEof")
    ELSE Ok(SubSeq(data, 9, 8 + de_u64(SubSeq(data, 1, 8))))

\* bincode deserialize::<&str>: the bytes, which must be UTF-8 (the model's
\* strings are ASCII)
de_str(data) ==
    IF de_bytes(data)[1] = "err" THEN de_bytes(data)
    ELSE IF \E i \in DOMAIN de_bytes(data)[2] : de_bytes(data)[2][i] >= 128
         THEN Err("InvalidUtf8Encoding")
    ELSE de_bytes(data)

\* bincode deserialize of the payload of type t
deserialize_as(t, data) ==
    CASE t = "Bool" -> de_bool(data)
      [] t \in {"U64", "F64"} ->
            IF Len(data) < 8 THEN Err("UnexpectedEof") ELSE Ok(de_u64(SubSeq(data, 1, 8)))
      [] t \in {"I64", "Instant"} ->
            IF Len(data) < 8 THEN Err("UnexpectedEof") ELSE Ok(de_i64(SubSeq(data, 1, 8)))
      [] t \in {"Str", "Json"} -> de_str(data)
      [] t = "Uuid" -> de_bytes(data)

\* bincode serialize of the payload of a value: a fixed-size array such as
\* UuidBytes is written element by element, without a length
serialize_payload(value) ==
    CASE value.type = "Bool" -> <<IF value.data THEN 1 ELSE 0>>
      [] value.type \in {"U64", "F64"} -> LE8(value.data)
      [] value.type \in {"I64", "Instant"} -> ser_i64(value.data)
      [] value.type \in {"Str", "Json"} -> LE8(Len(value.data)) \o value.data
      [] value.type = "Uuid" -> value.data

\* Value::to_bytes: serialize(&(tag, v)), which cannot fail for these types
to_bytes(value) == Ok(<<to_tag(value.type)>> \o serialize_payload(value))

\* fn uuid
uuid(bytes) ==
    IF Len(bytes) = 16 THEN Ok([type |-> "Uuid", data |-> bytes])
    ELSE Err("DataError::InvalidUuid")

\* Value::from_type_and_data
from_type_and_data(t, data) ==
    IF deserialize_as(t, data)[1] = "err" THEN Err("DataError::DecodingError")
    ELSE IF t = "Uuid" THEN uuid(deserialize_as(t, data)[2])
    ELSE Ok([type |-> t, data |-> deserialize_as(t, data)[2]])

\* Value::expected_from_tagged_slice: if t == expected { return Err(UnexpectedType) }
expected_from_tagged_slice(expected, slice) ==
    IF slice = <<>> THEN Err("DataError::Empty")
    ELSE IF from_primitive(Head(slice)) = None THEN Err("DataError::UnknownType")
    ELSE IF from_primitive(Head(slice))[1] = expected THEN Err("DataError::UnexpectedType")
    ELSE from_type_and_data(from_primitive(Head(slice))[1], Tail(slice))

\* Value::from_tagged_slice
from_tagged_slice(slice) ==
    IF slice = <<>> THEN Err("DataError::Empty")
    ELSE IF from_primitive(Head(slice)) = None THEN Err("DataError::UnknownType")
    ELSE from_type_and_data(from_primitive(Head(slice))[1], Tail(slice))

\* lmdb RoTransaction::get as Reader::get calls it
lmdb_get(t, key) == IF key \in DOMAIN t THEN Ok(t[key]) ELSE Err("NotFound")

\* store.rs read_transform
read_transform(val) ==
    IF val[1] = "ok"
    THEN IF from_tagged_slice(val[2])[1] = "ok"
         THEN Ok(Some(from_tagged_slice(val[2])[2]))
         ELSE Err("DataError")
    ELSE IF val[2] = "NotFound" THEN Ok(None)
    ELSE Err("LmdbError")

\* impl_safe RoTransactionImpl::get
safe_get(t, key) == IF key \in DOMAIN t THEN Ok(t[key]) ELSE Err("KeyValuePairNotFound")

\* impl_safe Into<StoreError> for ErrorImpl
safe_into_StoreError(e) ==
    IF e = "KeyValuePairNotFound" THEN "KeyValuePairNotFound" ELSE "SafeModeError"

\* impl_sqlite RoTransactionImpl::get: query_row fails with QueryReturnedNoRows
\* when no row matches, wrapped by map_err(ErrorImpl::SqliteError)
sqlite_get(t, key) == IF key \in DOMAIN t THEN Ok(t[key]) ELSE Err("SqliteError")

\* impl_sqlite Into<StoreError> for ErrorImpl
sqlite_into_StoreError(e) ==
    CASE e = "SqliteError" -> "SqliteError"
      [] e = "UnsuitableEnvironmentPath" -> "UnsuitableEnvironmentPath"
      [] e = "IoError" -> "IoError"

\* Readable::get: a backend's not-found becomes None, its bytes a decoded Value
Readable_get(val) ==
    IF val[1] = "ok"
    THEN IF from_tagged_slice(val[2])[1] = "ok"
         THEN Ok(Some(from_tagged_slice(val[2])[2]))
         ELSE Err("DataError")
    ELSE IF val[2] = "KeyValuePairNotFound" THEN Ok(None)
    ELSE val

\* map_err(|e| e.into()) on the result of a backend's get
into_StoreError(b, val) ==
    IF val[1] = "ok" THEN val
    ELSE Err(IF b = "safe" THEN safe_into_StoreError(val[2]) ELSE sqlite_into_StoreError(val[2]))

\* SingleStore::get on a reader of the given backend
SingleStore_get(b, t, key) ==
    CASE b = "lmdb" -> read_transform(lmdb_get(t, key))
      [] b = "safe" -> Readable_get(into_StoreError(b, safe_get(t, key)))
      [] b = "sqlite" -> Readable_get(into_StoreError(b, sqlite_get(t, key)))

GetCall(op, key, res) == [op |-> op, key |-> key, res |-> res]

GetInit ==
    /\ backend \in Backends
    /\ table = EmptyIndex
    /\ glast = GetCall("open", 1, Ok(None))

\* SingleStore::put in a write transaction that commits
StorePut(key, value) ==
    /\ table' = Upd(table, key, to_bytes(value)[2])
    /\ glast' = GetCall("put", key, Ok(None))
    /\ UNCHANGED backend
    /\ UNCHANGED exceptGet

\* the table without the row of key
Without(t, key) == [k \in (DOMAIN t) \ {key} |-> t[k]]

\* impl_safe RwTransactionImpl::del with no value: Snapshot::del_all answers
\* None for a key it does not hold, which becomes KeyValuePairNotFound
safe_del(t, key) ==
    IF key \in DOMAIN t THEN [res |-> Ok(None), table |-> Without(t, key)]
    ELSE [res |-> Err("KeyValuePairNotFound"), table |-> t]

\* impl_sqlite RwTransactionImpl::del: the DELETE statement is executed and
\* Ok(()) returned, however many rows it removed
sqlite_del(t, key) == [res |-> Ok(None), table |-> Without(t, key)]

\* readwrite.rs Writer::delete: the engine's NotFound is wrapped in LmdbError
lmdb_del(t, key) ==
    IF key \in DOMAIN t THEN [res |-> Ok(None), table |-> Without(t, key)]
    ELSE [res |-> Err("LmdbError"), table |-> t]

\* SingleStore::delete on a writer of the given backend
SingleStore_delete(b, t, key) ==
    CASE b = "lmdb" -> lmdb_del(t, key)
      [] b = "safe" -> [res |-> into_StoreError(b, safe_del(t, key).res),
                        table |-> safe_del(t, key).table]
      [] b = "sqlite" -> [res |-> into_StoreError(b, sqlite_del(t, key).res),
                          table |-> sqlite_del(t, key).table]

\* the record of a delete: its result and the table it found
DelCall(key, res, before) == [op |-> "delete", key |-> key, res |-> res, before |-> before]

\* SingleStore::delete in a write transaction that commits
StoreDelete(key) ==
    /\ table' = SingleStore_delete(backend, table, key).table
    /\ glast' = DelCall(key, SingleStore_delete(backend, table, key).res, table)
    /\ UNCHANGED backend
    /\ UNCHANGED exceptGet

\* the write flag of a put that must not replace a value
NO_OVERWRITE == "NO_OVERWRITE"

\* impl_safe RwTransactionImpl::put on a database without DUP_SORT: the
\* _flags argument is not read, Snapshot::put_one replaces the value
safe_put(t, key, bytes, flags) == [res |-> Ok(None), table |-> Upd(t, key, bytes)]

\* impl_sqlite RwTransactionImpl::put: the flags argument is not read, the
\* statement is INSERT ... ON CONFLICT(key) DO UPDATE
sqlite_put(t, key, bytes, flags) == [res |-> Ok(None), table |-> Upd(t, key, bytes)]

\* put_with_flags of the LMDB writer: the flags reach the engine, which
\* refuses a NO_OVERWRITE put on a key that has a value; the engine's error
\* is wrapped in LmdbError
lmdb_put(t, key, bytes, flags) ==
    IF NO_OVERWRITE \in flags /\ key \in DOMAIN t
    THEN [res |-> Err("LmdbError"), table |-> t]
    ELSE [res |-> Ok(None), table |-> Upd(t, key, bytes)]

\* a put with write flags on a writer of the given backend
Backend_put(b, t, key, bytes, flags) ==
    CASE b = "lmdb" -> lmdb_put(t, key, bytes, flags)
      [] b = "safe" -> safe_put(t, key, bytes, flags)
      [] b = "sqlite" -> sqlite_put(t, key, bytes, flags)

\* the record of a put with flags: its result and the table it found
PutCall(key, res, flags, before) ==
    [op |-> "put_with_flags", key |-> key, res |-> res, flags |-> flags, before |-> before]

\* a put with the NO_OVERWRITE flag in a write transaction that commits
StorePutNoOverwrite(key, value) ==
    /\ table' = Backend_put(backend, table, key, to_bytes(value)[2], {NO_OVERWRITE}).table
    /\ glast' = PutCall(key, Backend_put(backend, table, key, to_bytes(value)[2], {NO_OVERWRITE}).res,
                        {NO_OVERWRITE}, table)
    /\ UNCHANGED backend
    /\ UNCHANGED exceptGet

\* the orders in which a hash map may hold the keys: rank[k] is the place of
\* key k among all keys
HashOrders == Orders(Cardinality(GetKeys))

RECURSIVE KeysBy(_, _)
\* the keys of the set S, lowest rank first
KeysBy(S, rank) ==
    IF S = {} THEN <<>>
    ELSE LET k == CHOOSE x \in S : \A y \in S : rank[x] <= rank[y]
         IN <<k>> \o KeysBy(S \ {k}, rank)

\* the rows of t with the keys in the order ks
RowsIn(t, ks) == [i \in DOMAIN ks |-> <<ks[i], t[ks[i]]>>]

\* the LMDB cursor's iter: the engine walks its B-tree in ascending key order
lmdb_iter(t) == RowsIn(t, SortedSeq(DOMAIN t))

\* the LMDB cursor's iter_from: the engine positions at the first key >= key
lmdb_iter_from(t, key) == RowsIn(t, SortedSeq({k \in DOMAIN t : k >= key}))

\* Snapshot::iter: self.map.iter() walks the HashMap in its own order ks
safe_iter(t, ks) == RowsIn(t, ks)

RECURSIVE skip_while_less(_, _)
\* Iterator::skip_while(|(k, _)| k < key): drops the leading rows whose key is
\* below key, and passes every row after the first that is not
skip_while_less(rows, key) ==
    IF rows = <<>> THEN <<>>
    ELSE IF Head(rows)[1] < key THEN skip_while_less(Tail(rows), key)
    ELSE rows

\* the safe-mode cursor's iter_from: the snapshot's iteration, skipped to the
\* first key >= key
safe_iter_from(t, ks, key) == skip_while_less(safe_iter(t, ks), key)

\* Iter::next of the store: every row's bytes go through read_transform
Iter_collect(rows) == [i \in DOMAIN rows |-> <<rows[i][1], read_transform(Ok(rows[i][2]))>>]

\* the outcome of a call that panics
Panic(msg) == <<"panic", msg>>

\* SingleStore::iter_start on a reader of the given backend, collected; the
\* SQL backend's open_ro_cursor is unimplemented!()
SingleStore_iter_start(b, t, ks) ==
    CASE b = "lmdb" -> Ok(Iter_collect(lmdb_iter(t)))
      [] b = "safe" -> Ok(Iter_collect(safe_iter(t, ks)))
      [] b = "sqlite" -> Panic("open_ro_cursor is not implemented for SQLite")

\* SingleStore::iter_from on a reader of the given backend, collected
SingleStore_iter_from(b, t, ks, key) ==
    CASE b = "lmdb" -> Ok(Iter_collect(lmdb_iter_from(t, key)))
      [] b = "safe" -> Ok(Iter_collect(safe_iter_from(t, ks, key)))
      [] b = "sqlite" -> Panic("open_ro_cursor is not implemented for SQLite")

\* SingleStore::iter_start in a read transaction, run to its end
StoreIterStart(rank) ==
    /\ glast' = GetCall("iter_start", 1,
                        SingleStore_iter_start(backend, table, KeysBy(DOMAIN table, rank)))
    /\ UNCHANGED <<backend, table>>
    /\ UNCHANGED exceptGet

\* SingleStore::iter_from in a read transaction, run to its end
StoreIterFrom(rank, key) ==
    /\ glast' = GetCall("iter_from", key,
                        SingleStore_iter_from(backend, table, KeysBy(DOMAIN table, rank), key))
    /\ UNCHANGED <<backend, table>>
    /\ UNCHANGED exceptGet

\* SingleStore::get in a read transaction
StoreGet(key) ==
    /\ glast' = GetCall("get", key, SingleStore_get(backend, table, key))
    /\ UNCHANGED <<backend, table>>
    /\ UNCHANGED exceptGet

GetNext ==
    \/ \E key \in GetKeys, value \in StoredValues : StorePut(key, value)
    \/ \E key \in GetKeys, value \in StoredValues : StorePutNoOverwrite(key, value)
    \/ \E key \in GetKeys : StoreDelete(key)
    \/ \E key \in GetKeys : StoreGet(key)
    \/ \E rank \in HashOrders : StoreIterStart(rank)
    \/ \E rank \in HashOrders, key \in GetKeys : StoreIterFrom(rank, key)

(***************************************************************************)
(* The safe-mode environment's database calls with their results, and the  *)
(* transaction calls made with a database handle.  A handle names the      *)
(* environment that issued it and the database's id in that environment's  *)
(* arena; ids of different arenas never compare equal.                     *)
(***************************************************************************)
EnvWriters == {"w1"}
EnvFlags == {{}, {DUP_SORT}}
Handles == [env : {"this", "other"}, idx : 1..Cardinality(DbNames)]
TxnOps == {"get", "put", "del", "clear_db", "open_ro_cursor"}

\* Arc::strong_count(&self.ro_txns): the environment's own reference and one
\* clone held by every live read transaction
ro_txns_count(st) == 1 + Cardinality({r \in DOMAIN st : st[r] = "live"})

\* EnvironmentImpl::open_db
open_db(d, st, name) ==
    IF ro_txns_count(st) > 1 THEN Err("DbsIllegalOpen")
    ELSE IF name \notin DOMAIN d THEN Err("DbNotFoundError")
    ELSE Ok(d[name])

\* EnvironmentImpl::create_db: dbs.entry(key).or_insert_with(|| arena.alloc(..)),
\* Ok(*id); the read transactions are not counted and the flags of an
\* existing database are not compared
create_db(d, a, st, name, flags) ==
    IF name \in DOMAIN d
    THEN [res |-> Ok(d[name]), dbs |-> d, arena |-> a]
    ELSE [res |-> Ok(Len(a) + 1),
          dbs |-> Upd(d, name, Len(a) + 1),
          arena |-> Append(a, Snapshot_new(flags))]

\* the record of an open_db or create_db: the name and flags given, the
\* result, the number of read transactions live at the call and the name
\* index and arena the call found
EnvCall(op, name, flags, res, readers, d, a) ==
    [op |-> op, who |-> name, flags |-> flags, res |-> res, n |-> readers,
     dbs |-> d, arena |-> a]

\* EnvironmentImpl::create_db with its result
EnvCreateDb(name, flags) ==
    /\ calls < MaxCalls
    /\ calls' = calls + 1
    /\ dbs' = create_db(dbs, arena, rst, name, flags).dbs
    /\ arena' = create_db(dbs, arena, rst, name, flags).arena
    /\ serial' = IF name \in DOMAIN dbs THEN serial ELSE Append(serial, Snapshot_new(flags))
    /\ last' = EnvCall("create_db", name, flags, create_db(dbs, arena, rst, name, flags).res,
                       ro_txns_count(rst) - 1, dbs, arena)
    /\ UNCHANGED <<disk, wst, wsnap, rst, rsnap, wbase, wlog, rbase>>
    /\ UNCHANGED exceptSafe

\* EnvironmentImpl::open_db with its result
EnvOpenDb(name) ==
    /\ calls < MaxCalls
    /\ calls' = calls + 1
    /\ last' = EnvCall("open_db", name, {}, open_db(dbs, rst, name),
                       ro_txns_count(rst) - 1, dbs, arena)
    /\ UNCHANGED <<dbs, arena, serial, disk, wst, wsnap, rst, rsnap, wbase, wlog, rbase>>
    /\ UNCHANGED exceptSafe

\* a lookup that takes the id of any environment's handle for its own
lookup_AnyEnv(snaps, h) == IF h.idx \in DOMAIN snaps THEN Some(h.idx) ELSE None

\* self.snapshots.get(db.id()): the id the transaction captured, if any
lookup(snaps, h) ==
    IF h.env = "this" /\ h.idx \in DOMAIN snaps THEN Some(h.idx) ELSE None

\* get, put, del, clear_db, open_ro_cursor of a transaction holding snaps:
\* each begins with the lookup and fails with DbIsForeignError without it
txn_call(snaps, h, op, key, value) ==
    IF lookup(snaps, h) = None
    THEN [res |-> Err("DbIsForeignError"), snaps |-> snaps]
    ELSE LET id == lookup(snaps, h)[1] IN
         CASE op = "get" ->
                [res |-> IF txn_get(snaps, id, key) = None THEN Err("KeyValuePairNotFound")
                         ELSE Ok(txn_get(snaps, id, key)[1]),
                 snaps |-> snaps]
           [] op = "put" -> [res |-> Ok(0), snaps |-> txn_put(snaps, id, key, value)]
           [] op = "del" ->
                [res |-> IF txn_del(snaps, id, key, None).ok THEN Ok(0)
                         ELSE Err("KeyValuePairNotFound"),
                 snaps |-> [snaps EXCEPT ![id] = txn_del(snaps, id, key, None).snap]]
           [] op = "clear_db" -> [res |-> Ok(0), snaps |-> txn_clear(snaps, id)]
           [] op = "open_ro_cursor" -> [res |-> Ok(0), snaps |-> snaps]

\* the record of a transaction call: the transaction, the handle, the result
\* and the snapshots the call found
TxnCall(op, who, h, res, before) ==
    [op |-> op, who |-> who, handle |-> h, res |-> res, n |-> 0, before |-> before]

\* a call of write transaction w with the handle of a database it did not
\* capture: a handle of another environment, or of a database created in
\* this environment after w began
RwForeign(w, h, op, key, value) ==
    /\ wst[w] = "live"
    /\ h.env = "other" \/ h.idx \in (DOMAIN arena) \ (DOMAIN wbase[w])
    /\ calls < MaxCalls
    /\ calls' = calls + 1
    /\ wsnap' = [wsnap EXCEPT ![w] = txn_call(@, h, op, key, value).snaps]
    /\ last' = TxnCall(op, w, h, txn_call(wsnap[w], h, op, key, value).res, wsnap[w])
    /\ UNCHANGED <<dbs, arena, serial, disk, wst, rst, rsnap, wbase, wlog, rbase>>
    /\ UNCHANGED exceptSafe

\* a get or open_ro_cursor of read transaction r with the handle of a
\* database it did not capture
RoForeign(r, h, op, key) ==
    /\ rst[r] = "live"
    /\ h.env = "other" \/ h.idx \in (DOMAIN arena) \ (DOMAIN rbase[r])
    /\ calls < MaxCalls
    /\ calls' = calls + 1
    /\ last' = TxnCall(op, r, h, txn_call(rsnap[r], h, op, key, 0).res, rsnap[r])
    /\ UNCHANGED <<dbs, arena, serial, disk, wst, wsnap, rst, rsnap, wbase, wlog, rbase>>
    /\ UNCHANGED exceptSafe

EnvNext ==
    \/ \E name \in DbNames, flags \in EnvFlags : EnvCreateDb(name, flags)
    \/ \E name \in DbNames : EnvOpenDb(name)
    \/ \E w \in EnvWriters : BeginRw(w)
    \/ \E w \in EnvWriters, id \in 1..Cardinality(DbNames), k \in Keys, v \in Values :
            RwPut(w, id, k, v)
    \/ \E w \in EnvWriters : RwCommit(w, "ok")
    \/ \E w \in EnvWriters : RwAbort(w)
    \/ \E r \in Readers : BeginRo(r)
    \/ \E r \in Readers : RoAbort(r)
    \/ \E w \in EnvWriters, h \in Handles, op \in TxnOps, k \in Keys, v \in Values :
            RwForeign(w, h, op, k, v)
    \/ \E r \in Readers, h \in Handles, op \in {"get", "open_ro_cursor"}, k \in Keys :
            RoForeign(r, h, op, k)

\* a DUP_SORT or single-value database is created and one write transaction
\* at a time puts, deletes and clears
DupNext ==
    \/ \E name \in DbNames, flags \in EnvFlags : CreateDb(name, flags)
    \/ \E w \in EnvWriters : BeginRw(w)
    \/ \E w \in EnvWriters, id \in 1..Cardinality(DbNames), k \in Keys, v \in Values :
            RwPut(w, id, k, v)
    \/ \E w \in EnvWriters, id \in 1..Cardinality(DbNames), k \in Keys,
          v \in {None} \cup {Some(x) : x \in Values} : RwDel(w, id, k, v)
    \/ \E w \in EnvWriters, id \in 1..Cardinality(DbNames) : RwClear(w, id)
    \/ \E w \in EnvWriters : RwCommit(w, "ok")
    \/ \E w \in EnvWriters : RwAbort(w)

\* one write transaction at a time and one reader on an environment that is
\* created, written, synced and opened again from its file
FileNext ==
    \/ \E c \in StoreChoices : CreateDb(c[1], c[2])
    \/ \E w \in EnvWriters : BeginRw(w)
    \/ \E w \in EnvWriters, id \in 1..Cardinality(DbNames), k \in Keys, v \in Values :
            RwPut(w, id, k, v)
    \/ \E w \in EnvWriters, id \in 1..Cardinality(DbNames), k \in Keys,
          v \in {None} \cup {Some(x) : x \in Values} : RwDel(w, id, k, v)
    \/ \E w \in EnvWriters, id \in 1..Cardinality(DbNames) : RwClear(w, id)
    \/ \E w \in EnvWriters, io \in {"ok", "err"} : RwCommit(w, io)
    \/ \E w \in EnvWriters : RwAbort(w)
    \/ \E r \in Readers : BeginRo(r)
    \/ \E r \in Readers : RoAbort(r)
    \/ \E io \in {"ok", "err"} : Sync(io)
    \/ \E order \in Orders(Cardinality(DbNames)) \cup Orders(1) \cup Orders(0) : Reopen(order)

(***************************************************************************)
(* env.rs: Rkv over the LMDB engine, its read and write transactions and   *)
(* the opening of stores.  The engine keeps one reader slot per thread and *)
(* one writer lock per environment: Environment::open_db runs a read       *)
(* transaction of the calling thread, Environment::create_db a write       *)
(* transaction.                                                            *)
(***************************************************************************)
Threads == {"t1", "t2"}
StoreNames == {"sk", "s2"}

\* the outcome of a call that never returns
Blocked == <<"blocked", "writer lock">>

\* Rkv::open: env.open_db(name), BadRslot mapped to OpenAttemptedDuringTransaction;
\* the engine refuses a second read transaction on a thread whose reader slot
\* is in use, and a write transaction does not hinder a read transaction
Rkv_open(readers, names, t, name) ==
    IF t \in readers THEN Err("OpenAttemptedDuringTransaction")
    ELSE IF name \in names THEN Ok(name)
    ELSE Err("LmdbError")

\* Rkv::open_or_create_with_flags: env.create_db(name, flags) with the same
\* mapping; its write transaction does not use the reader slot, and waits
\* for the writer lock, for ever when the calling thread holds it
Rkv_open_or_create(writer, t, name) ==
    IF writer = Some(t) THEN Blocked ELSE Ok(name)

\* the kinds of transaction live on thread t
LiveOn(readers, writer, t) ==
    (IF t \in readers THEN {"ro"} ELSE {}) \cup (IF writer = Some(t) THEN {"rw"} ELSE {})

\* the record of an open or open_or_create: the calling thread, the result,
\* the kinds of transaction live on the thread and the transactions found
OpenCall(op, t, name, res, live, readers, writer) ==
    [op |-> op, thread |-> t, name |-> name, res |-> res, live |-> live,
     readers |-> readers, writer |-> writer]

OpenInit ==
    /\ oreaders = {}
    /\ owriter = None
    /\ ostores = {}
    /\ olast = OpenCall("new", "t1", "sk", Ok("sk"), {}, {}, None)
    /\ ocalls = 0

\* Rkv::read on thread t: env.begin_ro_txn()
OpenRead(t) ==
    /\ t \notin oreaders
    /\ ocalls < MaxCalls
    /\ oreaders' = oreaders \cup {t}
    /\ ocalls' = ocalls + 1
    /\ olast' = OpenCall("read", t, "sk", Ok("sk"), LiveOn(oreaders, owriter, t), oreaders, owriter)
    /\ UNCHANGED <<owriter, ostores>>
    /\ UNCHANGED exceptOpen

\* the reader of thread t is dropped
OpenReadEnd(t) ==
    /\ t \in oreaders
    /\ oreaders' = oreaders \ {t}
    /\ olast' = OpenCall("end", t, "sk", Ok("sk"), LiveOn(oreaders, owriter, t), oreaders, owriter)
    /\ UNCHANGED <<owriter, ostores, ocalls>>
    /\ UNCHANGED exceptOpen

\* Rkv::write on thread t: env.begin_rw_txn(), which returns once no write
\* transaction is live
OpenWrite(t) ==
    /\ owriter = None
    /\ ocalls < MaxCalls
    /\ owriter' = Some(t)
    /\ ocalls' = ocalls + 1
    /\ olast' = OpenCall("write", t, "sk", Ok("sk"), LiveOn(oreaders, owriter, t), oreaders, owriter)
    /\ UNCHANGED <<oreaders, ostores>>
    /\ UNCHANGED exceptOpen

\* the writer of thread t commits or is dropped
OpenWriteEnd(t) ==
    /\ owriter = Some(t)
    /\ owriter' = None
    /\ olast' = OpenCall("end", t, "sk", Ok("sk"), LiveOn(oreaders, owriter, t), oreaders, owriter)
    /\ UNCHANGED <<oreaders, ostores, ocalls>>
    /\ UNCHANGED exceptOpen

\* Rkv::open on thread t
OpenStore(t, name) ==
    /\ ocalls < MaxCalls
    /\ ocalls' = ocalls + 1
    /\ olast' = OpenCall("open", t, name, Rkv_open(oreaders, ostores, t, name),
                         LiveOn(oreaders, owriter, t), oreaders, owriter)
    /\ UNCHANGED <<oreaders, owriter, ostores>>
    /\ UNCHANGED exceptOpen

\* Rkv::open_or_create on thread t; it returns once no other thread holds
\* the writer lock
OpenOrCreateStore(t, name) ==
    /\ owriter \in {None, Some(t)}
    /\ ocalls < MaxCalls
    /\ ocalls' = ocalls + 1
    /\ ostores' = IF Rkv_open_or_create(owriter, t, name)[1] = "ok"
                  THEN ostores \cup {name} ELSE ostores
    /\ olast' = OpenCall("open_or_create", t, name, Rkv_open_or_create(owriter, t, name),
                         LiveOn(oreaders, owriter, t), oreaders, owriter)
    /\ UNCHANGED <<oreaders, owriter>>
    /\ UNCHANGED exceptOpen

OpenNext ==
    \/ \E t \in Threads : OpenRead(t)
    \/ \E t \in Threads : OpenReadEnd(t)
    \/ \E t \in Threads : OpenWrite(t)
    \/ \E t \in Threads : OpenWriteEnd(t)
    \/ \E t \in Threads, name \in StoreNames : OpenStore(t, name)
    \/ \E t \in Threads, name \in StoreNames : OpenOrCreateStore(t, name)

(***************************************************************************)
(* lib.rs: the value codec applied to sample values and sample byte        *)
(* strings.  A byte is a number in 0..255, a string its ASCII bytes, a     *)
(* Uuid its sixteen bytes, an F64 its bit pattern.                         *)
(***************************************************************************)
Zeros(n) == [i \in 1..n |-> 0]

CodecUuids == {Zeros(16), <<8>> \o Zeros(15), <<1>> \o Zeros(7) \o <<7>> \o Zeros(7)}

CodecValues ==
    {[type |-> "Bool", data |-> b] : b \in BOOLEAN}
    \cup {[type |-> "U64", data |-> n] : n \in {0, 1234}}
    \cup {[type |-> "I64", data |-> n] : n \in {-1, 1234}}
    \cup {[type |-> "F64", data |-> n] : n \in {7}}
    \cup {[type |-> "Instant", data |-> n] : n \in {-5, 0}}
    \cup {[type |-> "Uuid", data |-> u] : u \in CodecUuids}
    \cup {[type |-> "Str", data |-> x] : x \in {<<>>, <<104, 105>>}}
    \cup {[type |-> "Json", data |-> x] : x \in {<<123, 125>>}}

\* byte strings handed to the decoders: the encodings of the sample values,
\* the empty input, tags outside the table, the Blob tag, and Uuid-tagged
\* inputs with payloads of 15, 16 and 24 bytes
CodecInputs ==
    {to_bytes(v)[2] : v \in CodecValues}
    \cup {<<>>, <<0>>, <<10, 1>>, <<9>> \o LE8(1) \o <<7>>}
    \cup {<<6>> \o Zeros(15), <<6>> \o Zeros(16), <<6>> \o LE8(16) \o Zeros(16)}

CodecCall(op, value, expected, bytes, res) ==
    [op |-> op, value |-> value, expected |-> expected, bytes |-> bytes, res |-> res]

CodecInit == clast = CodecCall("new", None, None, <<>>, Ok(None))

\* Value::to_bytes of a sample value, and Value::from_tagged_slice of the
\* bytes it returned
CodecRoundTrip(v) ==
    /\ clast' = CodecCall("round_trip", Some(v), None, to_bytes(v)[2],
                          IF to_bytes(v)[1] = "ok" THEN from_tagged_slice(to_bytes(v)[2])
                          ELSE to_bytes(v))
    /\ UNCHANGED exceptCodec

\* Value::from_tagged_slice of a byte string
CodecDecode(bytes) ==
    /\ clast' = CodecCall("from_tagged_slice", None, None, bytes, from_tagged_slice(bytes))
    /\ UNCHANGED exceptCodec

\* Value::expected_from_tagged_slice of a byte string
CodecDecodeExpecting(expected, bytes) ==
    /\ clast' = CodecCall("expected_from_tagged_slice", None, Some(expected), bytes,
                          expected_from_tagged_slice(expected, bytes))
    /\ UNCHANGED exceptCodec

CodecNext ==
    \/ \E v \in CodecValues : CodecRoundTrip(v)
    \/ \E bytes \in CodecInputs : CodecDecode(bytes)
    \/ \E expected \in TypeNames, bytes \in CodecInputs : CodecDecodeExpecting(expected, bytes)

(***************************************************************************)
(* migrator.rs: Migrator::migrate_lmdb_to_safe_mode and                    *)
(* Migrator::migrate_safe_mode_to_lmdb.  An environment is a function from *)
(* the names of its databases to their flags and rows; a row is a          *)
(* <<key, bytes>> pair.  Both environments come from Rkv::new, which sets  *)
(* max_dbs to DEFAULT_MAX_DBS.                                             *)
(***************************************************************************)
MigNames == {"a", "b"}
MigKeys == {1, 2}
INTEGER_KEY == "INTEGER_KEY"
MigFlags == {{}, {DUP_SORT}, {INTEGER_KEY}}
MigValues == {[type |-> "I64", data |-> 1234], [type |-> "Uuid", data |-> Zeros(16)]}
Directions == {<<"lmdb", "safe">>, <<"safe", "lmdb">>}
\* the engines list names and keys in byte order
NameRank == [n \in MigNames |-> IF n = "a" THEN 1 ELSE 2]
NameOrders == {r \in [MigNames -> 1..2] : r["a"] # r["b"]}
KeyOrders2 == {r \in [MigKeys -> 1..2] : r[1] # r[2]}
\* the number of puts the destination's map has room for
Rooms == {0, 1, Huge}

NoDbs == [n \in {} |-> 0]
Db(flags, rows) == [flags |-> flags, rows |-> rows]

RECURSIVE BytesLess(_, _)
\* the byte order of two byte strings
BytesLess(a, b) ==
    IF b = <<>> THEN FALSE
    ELSE IF a = <<>> THEN TRUE
    ELSE IF Head(a) # Head(b) THEN Head(a) < Head(b)
    ELSE BytesLess(Tail(a), Tail(b))

RECURSIVE SortBytes(_)
SortBytes(S) ==
    IF S = {} THEN <<>>
    ELSE LET m == CHOOSE x \in S : \A y \in S \ {x} : BytesLess(x, y)
         IN <<m>> \o SortBytes(S \ {m})

RECURSIVE RowsBy(_, _)
\* the rows of a database, key by key in the order ks, the values of one key
\* in byte order
RowsBy(rows, ks) ==
    IF ks = <<>> THEN <<>>
    ELSE LET vs == SortBytes({r[2] : r \in {x \in rows : x[1] = Head(ks)}})
         IN [i \in DOMAIN vs |-> <<Head(ks), vs[i]>>] \o RowsBy(rows, Tail(ks))

\* the cursor of a reader over a database: LMDB walks the keys in ascending
\* order, Snapshot::iter walks its HashMap in the map's own order krank
cursor_iter(kind, db, krank) ==
    IF kind = "lmdb" THEN RowsBy(db.rows, SortedSeq({r[1] : r \in db.rows}))
    ELSE RowsBy(db.rows, KeysBy({r[1] : r \in db.rows}, krank))

\* impl_lmdb EnvironmentImpl::get_dbs
lmdb_get_dbs(envtype, env) ==
    IF envtype = "SingleDatabase" THEN Ok(<<None>>)
    ELSE Ok([i \in 1..Cardinality(DOMAIN env) |-> Some(KeysBy(DOMAIN env, NameRank)[i])])

\* the safe-mode get_dbs: the names of the environment's databases, in the
\* order nrank of its HashMap
safe_get_dbs(env, nrank) ==
    Ok([i \in 1..Cardinality(DOMAIN env) |-> Some(KeysBy(DOMAIN env, nrank)[i])])

\* Rkv::get_dbs on an environment of the given backend
Rkv_get_dbs(kind, env, nrank) ==
    IF kind = "lmdb" THEN lmdb_get_dbs("MultipleNamedDatabases", env)
    ELSE safe_get_dbs(env, nrank)

\* open_single(name, StoreOptions::create()): create_db brings the database
\* into existence with the default flags when the name is new
open_single_create(env, name) ==
    IF name \in DOMAIN env THEN env ELSE Upd(env, name, Db({}, {}))

\* dst_store.put on the destination's writer: a database without DUP_SORT
\* keeps one value per key; the LMDB engine answers MapFull when its map has
\* no room, the safe-mode put has no such error
writer_put(kind, rows, key, bytes, room) ==
    IF kind = "lmdb" /\ room = 0 THEN [res |-> Err("LmdbError"), rows |-> rows]
    ELSE [res |-> Ok(None), rows |-> {r \in rows : r[1] # key} \cup {<<key, bytes>>}]

RECURSIVE copy_rows(_, _, _, _)
\* while let Some(Ok((key, value))) = iter.next() {
\*     dst_store.put(&mut writer, key, &value).expect("wrote"); }
\* the loop ends at the first item that is not Some(Ok(..)): the end of the
\* rows, or a row whose bytes read_transform cannot decode
copy_rows(dstKind, iter, rows, room) ==
    IF iter = <<>> THEN [res |-> Ok(None), rows |-> rows, room |-> room]
    ELSE IF read_transform(Ok(Head(iter)[2]))[1] # "ok"
    THEN [res |-> Ok(None), rows |-> rows, room |-> room]
    ELSE LET value == read_transform(Ok(Head(iter)[2]))[2][1]
             put == writer_put(dstKind, rows, Head(iter)[1], to_bytes(value)[2], room)
         IN IF put.res[1] # "ok" THEN [res |-> Panic("wrote"), rows |-> rows, room |-> room]
            ELSE copy_rows(dstKind, Tail(iter), put.rows, IF room = Huge THEN Huge ELSE room - 1)

RECURSIVE migrate_dbs(_, _, _, _, _, _)
\* a migrator that writes every database in one destination transaction: a
\* failure leaves the destination as it was found, empty
migrate_dbs_OneTransaction(dir, names, src, dst, krank, room) ==
    IF names = <<>> THEN [res |-> Ok(None), dst |-> dst]
    ELSE LET name == Head(names)[1]
             opened == open_single_create(dst, name)
             copy == copy_rows(dir[2], cursor_iter(dir[1], src[name], krank),
                               opened[name].rows, room)
         IN IF copy.res[1] # "ok" THEN [res |-> copy.res, dst |-> NoDbs]
            ELSE LET rest == migrate_dbs(dir, Tail(names), src,
                                         Upd(opened, name, Db(opened[name].flags, copy.rows)),
                                         krank, copy.room)
                 IN IF rest.res[1] # "ok" THEN [res |-> rest.res, dst |-> NoDbs] ELSE rest

\* for name in src_dbs { open both stores, read the source, write the
\* destination, commit }: a panic leaves the writer uncommitted
migrate_dbs(dir, names, src, dst, krank, room) ==
    IF names = <<>> THEN [res |-> Ok(None), dst |-> dst]
    ELSE LET name == Head(names)[1]
             opened == open_single_create(dst, name)
             copy == copy_rows(dir[2], cursor_iter(dir[1], src[name], krank),
                               opened[name].rows, room)
         IN IF copy.res[1] # "ok" THEN [res |-> copy.res, dst |-> opened]
            ELSE migrate_dbs(dir, Tail(names), src,
                             Upd(opened, name, Db(opened[name].flags, copy.rows)),
                             krank, copy.room)

\* a migrator that looks at the destination before the source
migrate_DestinationFirst(dir, src, dst, nrank, krank, room) ==
    IF Rkv_get_dbs(dir[2], dst, nrank)[2] # <<>>
    THEN [res |-> Err("MigrateError::DestinationNotEmpty"), dst |-> dst]
    ELSE IF Rkv_get_dbs(dir[1], src, nrank)[2] = <<>>
    THEN [res |-> Err("MigrateError::SourceEmpty"), dst |-> dst]
    ELSE migrate_dbs(dir, Rkv_get_dbs(dir[1], src, nrank)[2], src, dst, krank, room)

\* the body of fn_migrator!
migrate(dir, src, dst, nrank, krank, room) ==
    IF Rkv_get_dbs(dir[1], src, nrank)[2] = <<>>
    THEN [res |-> Err("MigrateError::SourceEmpty"), dst |-> dst]
    ELSE IF Rkv_get_dbs(dir[2], dst, nrank)[2] # <<>>
    THEN [res |-> Err("MigrateError::DestinationNotEmpty"), dst |-> dst]
    ELSE migrate_dbs(dir, Rkv_get_dbs(dir[1], src, nrank)[2], src, dst, krank, room)

MigCall(op, dir, res, src, dst, room) ==
    [op |-> op, dir |-> dir, res |-> res, src |-> src, dst |-> dst, room |-> room]

MigInit ==
    /\ msrc = NoDbs
    /\ mdst = NoDbs
    /\ mig = MigCall("new", <<"lmdb", "safe">>, Ok(None), NoDbs, NoDbs, Huge)

\* the application creates a store in the source environment
MigCreate(name, flags) ==
    /\ mig.op = "new"
    /\ name \notin DOMAIN msrc
    /\ msrc' = Upd(msrc, name, Db(flags, {}))
    /\ UNCHANGED <<mdst, mig>>
    /\ UNCHANGED exceptMig

\* the application puts a value in a store of the source environment and
\* commits: a DUP_SORT database keeps every value of the key, another
\* database the last one
MigPut(name, key, value) ==
    /\ mig.op = "new"
    /\ name \in DOMAIN msrc
    /\ msrc' = Upd(msrc, name,
                   Db(msrc[name].flags,
                      IF DUP_SORT \in msrc[name].flags
                      THEN msrc[name].rows \cup {<<key, to_bytes(value)[2]>>}
                      ELSE {r \in msrc[name].rows : r[1] # key} \cup {<<key, to_bytes(value)[2]>>}))
    /\ UNCHANGED <<mdst, mig>>
    /\ UNCHANGED exceptMig

\* the application creates a store in the destination environment
MigCreateDst(name) ==
    /\ mig.op = "new"
    /\ name \notin DOMAIN mdst
    /\ mdst' = open_single_create(mdst, name)
    /\ UNCHANGED <<msrc, mig>>
    /\ UNCHANGED exceptMig

\* Migrator::migrate_lmdb_to_safe_mode or Migrator::migrate_safe_mode_to_lmdb
Migrate(dir, nrank, krank, room) ==
    /\ mig.op = "new"
    /\ mdst' = migrate(dir, msrc, mdst, nrank, krank, room).dst
    /\ mig' = MigCall("migrate", dir, migrate(dir, msrc, mdst, nrank, krank, room).res,
                      msrc, mdst, room)
    /\ UNCHANGED msrc
    /\ UNCHANGED exceptMig

MigNext ==
    \/ \E name \in MigNames, flags \in MigFlags : MigCreate(name, flags)
    \/ \E name \in MigNames, key \in MigKeys, value \in MigValues : MigPut(name, key, value)
    \/ \E name \in MigNames : MigCreateDst(name)
    \/ \E dir \in Directions, nrank \in NameOrders, krank \in KeyOrders2, room \in Rooms :
          Migrate(dir, nrank, krank, room)

(***************************************************************************)
(* impl_sqlite: the environment's connection channel and its transactions. *)
(* A thread that called begin_ro_txn or begin_rw_txn is in recv() until    *)
(* the channel holds the connection.  Every SQL statement the code runs    *)
(* either succeeds or fails in the engine.                                 *)
(***************************************************************************)
SqlThreads == {"t1", "t2", "t3"}
Outcomes == {"ok", "fail"}
TxnKinds == {"ro", "rw"}
SqlCalls == TxnKinds \cup {"create"}

Waiting(kind) == <<"recv", kind>>
Holding(kind) == <<"txn", kind>>
Idle == <<"idle">>
Unwound == <<"panicked">>
\* the thread holds a transaction of `kind` and is in recv() for `call`
Nested(kind, call) == <<"txn+recv", kind, call>>
\* a panic while panicking: the process is aborted
Aborted == <<"aborted">>

Running == \A t \in SqlThreads : sqtx[t] # Aborted

SqlCall(op, thread, res) == [op |-> op, thread |-> thread, res |-> res]

\* a statement run on the connection, or the connection's return to the
\* channel ("send"), by the function `by`; BEGIN is run by the new of a read
\* ("ro") or a write ("rw") transaction
Stmt(stmt, by, res) == [stmt |-> stmt, by |-> by, res |-> res]

\* EnvironmentImpl::new: bounded(1), and the connection sent into it
SqlInit ==
    /\ sqchan = 1
    /\ sqtx = [t \in SqlThreads |-> Idle]
    /\ sqlast = SqlCall("new", "t1", Ok(None))
    /\ sqlog = <<>>

\* begin_ro_txn / begin_rw_txn / create_db: the thread enters
\* self.connections_out.recv(), whether or not it holds a transaction
SqlBegin(t, call) ==
    /\ Running
    /\ \/ sqtx[t] = Idle /\ sqtx' = [sqtx EXCEPT ![t] = Waiting(call)]
       \/ \E kind \in TxnKinds :
            sqtx[t] = Holding(kind) /\ sqtx' = [sqtx EXCEPT ![t] = Nested(kind, call)]
    /\ sqlast' = SqlCall("begin", t, Ok(None))
    /\ UNCHANGED <<sqchan, sqlog>>
    /\ UNCHANGED exceptSql

\* recv() returns the connection, and RoTransactionImpl::new or
\* RwTransactionImpl::new runs BEGIN DEFERRED: on its failure the `?` returns
\* the error and the connection, moved into new, is dropped
SqlRecv(t, kind, begin) ==
    /\ Running
    /\ sqtx[t] = Waiting(kind)
    /\ sqchan = 1
    /\ sqchan' = 0
    /\ sqtx' = [sqtx EXCEPT ![t] = IF begin = "ok" THEN Holding(kind) ELSE Idle]
    /\ sqlast' = SqlCall("recv", t, IF begin = "ok" THEN Ok(None) ELSE Err("SqliteError"))
    /\ sqlog' = <<Stmt("BEGIN", kind, begin)>>
    /\ UNCHANGED exceptSql

\* create_db: recv() returns the connection, CREATE TABLE runs and the
\* connection is sent back; when the statement fails the `?` returns before
\* the send and the connection is dropped
SqlCreateDb(t, create) ==
    /\ Running
    /\ sqtx[t] = Waiting("create")
    /\ sqchan = 1
    /\ sqchan' = IF create = "ok" THEN 1 ELSE 0
    /\ sqtx' = [sqtx EXCEPT ![t] = Idle]
    /\ sqlast' = SqlCall("create_db", t,
                         IF create = "ok" THEN Ok(None) ELSE Err("SqliteError"))
    /\ sqlog' = <<Stmt("CREATE", "create_db", create)>>
                    \o (IF create = "ok" THEN <<Stmt("send", "create_db", "ok")>> ELSE <<>>)
    /\ UNCHANGED exceptSql

\* a read transaction ends: abort is a no-op, and Drop runs COMMIT, unwraps
\* its result and sends the connection back
SqlRoEnd(t, how, commit) ==
    /\ Running
    /\ sqtx[t] = Holding("ro")
    /\ sqchan' = IF commit = "ok" THEN sqchan + 1 ELSE sqchan
    /\ sqtx' = [sqtx EXCEPT ![t] = IF commit = "ok" THEN Idle ELSE Unwound]
    /\ sqlast' = SqlCall(how, t, IF commit = "ok" THEN Ok(None) ELSE Panic("unwrap"))
    /\ sqlog' = sqlog \o <<Stmt("COMMIT", "drop", commit)>>
                    \o (IF commit = "ok" THEN <<Stmt("send", "drop", "ok")>> ELSE <<>>)
    /\ UNCHANGED exceptSql

\* Drop for RwTransactionImpl: ROLLBACK unless finished, with expect, then
\* the connection is sent back
rw_drop(finished, rollback) == finished \/ rollback = "ok"

\* a drop that rolls back whether or not the transaction is finished
rw_drop_log_Always(finished, rollback) ==
    <<Stmt("ROLLBACK", "drop", rollback)>>
        \o (IF rollback = "ok" THEN <<Stmt("send", "drop", "ok")>> ELSE <<>>)

\* what Drop for RwTransactionImpl runs on the connection
rw_drop_log(finished, rollback) ==
    IF finished THEN <<Stmt("send", "drop", "ok")>>
    ELSE <<Stmt("ROLLBACK", "drop", rollback)>>
            \o (IF rollback = "ok" THEN <<Stmt("send", "drop", "ok")>> ELSE <<>>)

\* RwTransactionImpl::commit: COMMIT with `?`; finished is set on success;
\* then the value is dropped
SqlRwCommit(t, commit, rollback) ==
    /\ Running
    /\ sqtx[t] = Holding("rw")
    /\ sqchan' = IF rw_drop(commit = "ok", rollback) THEN sqchan + 1 ELSE sqchan
    /\ sqtx' = [sqtx EXCEPT ![t] = IF rw_drop(commit = "ok", rollback) THEN Idle ELSE Unwound]
    /\ sqlast' = SqlCall("commit", t,
                         IF commit = "ok" THEN Ok(None)
                         ELSE IF rollback = "ok" THEN Err("SqliteError")
                         ELSE Panic("Failed to rollback transaction"))
    /\ sqlog' = sqlog \o <<Stmt("COMMIT", "commit", commit)>>
                    \o rw_drop_log(commit = "ok", rollback)
    /\ UNCHANGED exceptSql

\* RwTransactionImpl::abort: ROLLBACK with expect, finished is set, then the
\* value is dropped.  When the ROLLBACK fails abort panics before finished is
\* set and the value is dropped during the unwinding: Drop runs ROLLBACK
\* again, and a second failure is a panic while panicking.
SqlRwAbort(t, rollback, again) ==
    /\ Running
    /\ sqtx[t] = Holding("rw")
    /\ sqchan' = IF rw_drop(rollback = "ok", again) THEN sqchan + 1 ELSE sqchan
    /\ sqtx' = [sqtx EXCEPT ![t] =
                    IF rollback = "ok" THEN Idle
                    ELSE IF again = "ok" THEN Unwound ELSE Aborted]
    /\ sqlast' = SqlCall("abort", t, IF rollback = "ok" THEN Ok(None)
                                     ELSE Panic("Failed to rollback transaction"))
    /\ sqlog' = sqlog \o <<Stmt("ROLLBACK", "abort", rollback)>>
                    \o rw_drop_log(rollback = "ok", again)
    /\ UNCHANGED exceptSql

\* a write transaction is dropped without commit or abort
SqlRwEnd(t, how, rollback) ==
    /\ Running
    /\ how = "drop"
    /\ sqtx[t] = Holding("rw")
    /\ sqchan' = IF rw_drop(FALSE, rollback) THEN sqchan + 1 ELSE sqchan
    /\ sqtx' = [sqtx EXCEPT ![t] = IF rw_drop(FALSE, rollback) THEN Idle ELSE Unwound]
    /\ sqlast' = SqlCall(how, t, IF rollback = "ok" THEN Ok(None)
                                 ELSE Panic("Failed to rollback transaction"))
    /\ sqlog' = sqlog \o rw_drop_log(FALSE, rollback)
    /\ UNCHANGED exceptSql

SqlNext ==
    \/ \E t \in SqlThreads, call \in SqlCalls : SqlBegin(t, call)
    \/ \E t \in SqlThreads, kind \in TxnKinds, begin \in Outcomes : SqlRecv(t, kind, begin)
    \/ \E t \in SqlThreads, create \in Outcomes : SqlCreateDb(t, create)
    \/ \E t \in SqlThreads, how \in {"abort", "drop"}, commit \in Outcomes : SqlRoEnd(t, how, commit)
    \/ \E t \in SqlThreads, commit \in Outcomes, rollback \in Outcomes : SqlRwCommit(t, commit, rollback)
    \/ \E t \in SqlThreads, rollback \in Outcomes, again \in Outcomes : SqlRwAbort(t, rollback, again)
    \/ \E t \in SqlThreads, how \in {"drop"}, rollback \in Outcomes : SqlRwEnd(t, how, rollback)

(***************************************************************************)
(* EnvironmentBuilderImpl::open of the LMDB and the safe-mode backends.    *)
(* A path is missing, a regular file or a directory; a directory holds a   *)
(* set of files.                                                           *)
(***************************************************************************)
BldPaths == {"/p", "/q"}
BldBackends == {"lmdb", "safe"}
DataFiles == {"data.mdb", "lock.mdb", "data.safe.bin"}
Missing == [kind |-> "missing", files |-> {}, valid |-> TRUE]
RegularFile(valid) == [kind |-> "file", files |-> {}, valid |-> valid]
Directory(files, valid) == [kind |-> "dir", files |-> files, valid |-> valid]

\* Path::is_dir and Path::join(name).exists
is_dir(node) == node.kind = "dir"
exists_in(node, name) == node.kind = "dir" /\ name \in node.files

\* impl_lmdb EnvironmentBuilderImpl::open; the engine's open creates data.mdb
\* and lock.mdb in the directory, create_dir_all fails on a regular file
lmdb_builder_open(check_env_exists, make_dir, path, node) ==
    IF check_env_exists /\ ~exists_in(node, "data.mdb")
    THEN [res |-> Err(<<"EnvironmentDoesNotExistError", path>>), node |-> node]
    ELSE IF ~is_dir(node) /\ ~make_dir
    THEN [res |-> Err(<<"DirectoryDoesNotExistError", path>>), node |-> node]
    ELSE IF ~is_dir(node) /\ node.kind = "file"
    THEN [res |-> Err(<<"IoError", path>>), node |-> node]
    ELSE [res |-> Ok(path),
          node |-> Directory(node.files \cup {"data.mdb", "lock.mdb"}, node.valid)]

\* impl_safe EnvironmentImpl::read_from_disk: fs::metadata(&path)? fails on a
\* missing path; a directory is read at data.safe.bin, another path as the
\* file itself; a file that is not there gives an empty environment, a file
\* that does not decode an error
read_from_disk(path, node) ==
    IF node.kind = "missing" THEN Err(<<"IoError", path>>)
    ELSE IF is_dir(node) /\ ~exists_in(node, "data.safe.bin") THEN Ok(path)
    ELSE IF node.valid THEN Ok(path)
    ELSE Err(<<"SerializationError", path>>)

\* impl_safe EnvironmentBuilderImpl::open: the builder holds flags only, so
\* neither setting reaches it; EnvironmentImpl::new, then read_from_disk
safe_builder_open(check_env_exists, make_dir, path, node) ==
    [res |-> read_from_disk(path, node), node |-> node]

Builder_open(b, check_env_exists, make_dir, path, node) ==
    IF b = "lmdb" THEN lmdb_builder_open(check_env_exists, make_dir, path, node)
    ELSE safe_builder_open(check_env_exists, make_dir, path, node)

BldCall(op, b, check_env_exists, make_dir, path, res, before) ==
    [op |-> op, backend |-> b, check_env_exists |-> check_env_exists,
     make_dir |-> make_dir, path |-> path, res |-> res, before |-> before]

\* tempdir(): one directory that exists and is empty, one path that does not
BldInit ==
    /\ fsys = [p \in BldPaths |-> IF p = "/p" THEN Directory({}, TRUE) ELSE Missing]
    /\ blast = BldCall("new", "lmdb", FALSE, FALSE, "/p", Ok("/p"), Missing)

\* Rkv::from_builder with a builder of the given backend and settings
BuilderOpen(b, check_env_exists, make_dir, path) ==
    /\ fsys' = [fsys EXCEPT ![path] = Builder_open(b, check_env_exists, make_dir, path, fsys[path]).node]
    /\ blast' = BldCall("open", b, check_env_exists, make_dir, path,
                        Builder_open(b, check_env_exists, make_dir, path, fsys[path]).res,
                        fsys[path])
    /\ UNCHANGED exceptBld

\* fs::create_dir_all(path) by the application
FsCreateDir(path) ==
    /\ fsys[path].kind = "missing"
    /\ fsys' = [fsys EXCEPT ![path] = Directory({}, TRUE)]
    /\ blast' = BldCall("create_dir_all", "lmdb", FALSE, FALSE, path, Ok(path), fsys[path])
    /\ UNCHANGED exceptBld

\* something writes a regular file at the path, or data.safe.bin in the
\* directory there (sync of an earlier safe-mode environment writes a file
\* that decodes)
FsWrite(path, valid) ==
    /\ fsys[path].kind \in {"missing", "dir"}
    /\ fsys' = [fsys EXCEPT ![path] =
                   IF fsys[path].kind = "missing" THEN RegularFile(valid)
                   ELSE Directory(fsys[path].files \cup {"data.safe.bin"}, valid)]
    /\ blast' = BldCall("write", "safe", FALSE, FALSE, path, Ok(path), fsys[path])
    /\ UNCHANGED exceptBld

\* the path is removed with all it holds
FsRemove(path) ==
    /\ fsys[path].kind # "missing"
    /\ fsys' = [fsys EXCEPT ![path] = Missing]
    /\ blast' = BldCall("remove", "lmdb", FALSE, FALSE, path, Ok(path), fsys[path])
    /\ UNCHANGED exceptBld

BldNext ==
    \/ \E b \in BldBackends, check_env_exists \in BOOLEAN, make_dir \in BOOLEAN, path \in BldPaths :
          BuilderOpen(b, check_env_exists, make_dir, path)
    \/ \E path \in BldPaths : FsCreateDir(path)
    \/ \E path \in BldPaths, valid \in BOOLEAN : FsWrite(path, valid)
    \/ \E path \in BldPaths : FsRemove(path)

(***************************************************************************)
(* The opening of a store by name on the three backends, with no           *)
(* transaction live: open_db and create_db of impl_safe and impl_sqlite,   *)
(* Rkv::open and Rkv::open_or_create over the LMDB engine.                 *)
(***************************************************************************)
StNames == {"sk", "s2", "s3"}
NoReaders == [r \in Readers |-> "idle"]

\* impl_sqlite EnvironmentImpl::open_db: "TODO: check if the database
\* exists"; the handle is built from the name
sqlite_open_db(tables, name) == Ok(name)

\* impl_sqlite EnvironmentImpl::create_db: create table if not exists
sqlite_create_db(tables, name) == [res |-> Ok(name), tables |-> tables \cup {name}]

\* the databases that exist on a backend
Existing(b, d, ln, qt) ==
    CASE b = "safe" -> DOMAIN d
      [] b = "lmdb" -> ln
      [] b = "sqlite" -> qt

StCall(op, b, name, res, before) ==
    [op |-> op, backend |-> b, name |-> name, res |-> res, before |-> before]

StInit ==
    /\ sdbs = EmptyIndex
    /\ sarena = <<>>
    /\ lnames = {}
    /\ qtables = {}
    /\ slast = StCall("new", "safe", "sk", Ok(None), {})

\* a store opened without the create option
StOpen(b, name) ==
    /\ slast' = StCall("open", b, name,
                       CASE b = "safe" -> open_db(sdbs, NoReaders, name)
                         [] b = "lmdb" -> Rkv_open({}, lnames, "t1", name)
                         [] b = "sqlite" -> sqlite_open_db(qtables, name),
                       Existing(b, sdbs, lnames, qtables))
    /\ UNCHANGED <<sdbs, sarena, lnames, qtables>>
    /\ UNCHANGED exceptSt

\* a store opened with the create option
StCreate(b, name) ==
    /\ sdbs' = IF b = "safe" THEN create_db(sdbs, sarena, NoReaders, name, {}).dbs ELSE sdbs
    /\ sarena' = IF b = "safe" THEN create_db(sdbs, sarena, NoReaders, name, {}).arena ELSE sarena
    /\ lnames' = IF b = "lmdb" /\ Rkv_open_or_create(None, "t1", name)[1] = "ok"
                 THEN lnames \cup {name} ELSE lnames
    /\ qtables' = IF b = "sqlite" THEN sqlite_create_db(qtables, name).tables ELSE qtables
    /\ slast' = StCall("create", b, name,
                       CASE b = "safe" -> create_db(sdbs, sarena, NoReaders, name, {}).res
                         [] b = "lmdb" -> Rkv_open_or_create(None, "t1", name)
                         [] b = "sqlite" -> sqlite_create_db(qtables, name).res,
                       Existing(b, sdbs, lnames, qtables))
    /\ UNCHANGED exceptSt

StNext ==
    \/ \E b \in Backends, name \in StNames : StOpen(b, name)
    \/ \E b \in Backends, name \in StNames : StCreate(b, name)

(***************************************************************************)
(* manager.rs, examples/simple-store.rs: threads share Manager::singleton() *)
(* and call get_or_create under MANAGER.write() and get under               *)
(* MANAGER.read().  A guard is taken, the call runs and the guard, a        *)
(* temporary, is dropped when the statement ends.  get_or_create runs in    *)
(* two steps: the entry lookup, and in the Vacant arm the constructor and   *)
(* the insert.                                                              *)
(***************************************************************************)
MgrThreads == {"t1", "t2", "t3"}
SharedPaths == {"/d1", "/d1/.", "/gone"}
SharedOutcomes == {"ok", "LmdbError"}

\* what a thread holds: no guard, the write guard before the entry lookup,
\* the write guard inside the Vacant arm of canonical path c, the read guard
Free == <<"free">>
WriteGuard == <<"write">>
InVacant(c) == <<"vacant", c>>
ReadGuard == <<"read">>

\* a write() that is granted whatever guards are out
can_write_Shared(pc, t) == TRUE

\* RwLock::write: granted when no other guard is out
can_write(pc, t) == \A u \in MgrThreads \ {t} : pc[u] = Free

\* RwLock::read: granted when no write guard is out
can_read(pc, t) == \A u \in MgrThreads \ {t} : pc[u] \in {Free, ReadGuard}

\* the last call a thread completed: its canonical path and its result
Done(op, path, res) == [op |-> op, path |-> path, canonical |-> canonicalize(path), res |-> res]

ConInit ==
    /\ tpc = [t \in MgrThreads |-> Free]
    /\ tstores = EmptyIndex
    /\ trkvs = <<>>
    /\ tres = [t \in MgrThreads |-> Done("new", "/d1", Ok(None))]
    /\ targ = [t \in MgrThreads |-> "/d1"]

\* Manager::singleton().write().unwrap()
ConWrite(t) ==
    /\ tpc[t] = Free
    /\ can_write(tpc, t)
    /\ tpc' = [tpc EXCEPT ![t] = WriteGuard]
    /\ UNCHANGED <<tstores, trkvs, tres, targ>>
    /\ UNCHANGED exceptCon

\* Manager::singleton().read().unwrap()
ConRead(t) ==
    /\ tpc[t] = Free
    /\ can_read(tpc, t)
    /\ tpc' = [tpc EXCEPT ![t] = ReadGuard]
    /\ UNCHANGED <<tstores, trkvs, tres, targ>>
    /\ UNCHANGED exceptCon

\* get_or_create up to the match: canonicalize()? and stores.entry(canonical);
\* the Occupied arm returns the clone of the handle
ConEntry(t, path) ==
    /\ tpc[t] = WriteGuard
    /\ LET canonical == canonicalize(path) IN
       IF canonical = None
       THEN /\ tpc' = [tpc EXCEPT ![t] = Free]
            /\ tres' = [tres EXCEPT ![t] = Done("get_or_create", path, Err("IoError"))]
            /\ UNCHANGED targ
       ELSE IF Occupied(tstores, canonical[1])
       THEN /\ tpc' = [tpc EXCEPT ![t] = Free]
            /\ tres' = [tres EXCEPT ![t] =
                            Done("get_or_create", path, Ok(tstores[canonical[1]]))]
            /\ UNCHANGED targ
       ELSE /\ tpc' = [tpc EXCEPT ![t] = InVacant(canonical[1])]
            /\ targ' = [targ EXCEPT ![t] = path]
            /\ UNCHANGED tres
    /\ UNCHANGED <<tstores, trkvs>>
    /\ UNCHANGED exceptCon

\* the Vacant arm: Arc::new(RwLock::new(f(..)?)) and e.insert(k).clone()
ConCtor(t, c, outcome) ==
    /\ tpc[t] = InVacant(c)
    /\ tpc' = [tpc EXCEPT ![t] = Free]
    /\ tstores' = vacant_insert(tstores, c, outcome, Len(trkvs) + 1)
    /\ trkvs' = IF outcome = "ok" THEN Append(trkvs, c) ELSE trkvs
    /\ tres' = [tres EXCEPT ![t] =
                    Done("get_or_create", targ[t],
                         IF outcome = "ok" THEN Ok(Len(trkvs) + 1) ELSE Err(outcome))]
    /\ UNCHANGED targ
    /\ UNCHANGED exceptCon

\* Manager::get under the read guard
ConGet(t, path) ==
    /\ tpc[t] = ReadGuard
    /\ tpc' = [tpc EXCEPT ![t] = Free]
    /\ tres' = [tres EXCEPT ![t] = Done("get", path, Manager_get(tstores, path))]
    /\ UNCHANGED <<tstores, trkvs, targ>>
    /\ UNCHANGED exceptCon

ConNext ==
    \/ \E t \in MgrThreads : ConWrite(t)
    \/ \E t \in MgrThreads : ConRead(t)
    \/ \E t \in MgrThreads, path \in SharedPaths : ConEntry(t, path)
    \/ \E t \in MgrThreads, c \in CanonPaths, outcome \in SharedOutcomes : ConCtor(t, c, outcome)
    \/ \E t \in MgrThreads, path \in SharedPaths : ConGet(t, path)

(***************************************************************************)
(* impl_safe: the environment's two locks.  self.arena and self.dbs are    *)
(* RwLocks; a call is at a point in its code, about to take a lock or      *)
(* holding one.  create_db takes dbs.write() and then arena.write();       *)
(* RoTransactionImpl::new and RwTransactionImpl::new copy every database   *)
(* under arena.read(); commit replaces the databases one by one under      *)
(* arena.write(), drops the guard and calls write_to_disk, whose serialize *)
(* takes arena.read() and then dbs.read(); sync calls write_to_disk.  A    *)
(* database's contents are abridged to the value last put.                 *)
(***************************************************************************)
LockThreads == {"t1", "t2"}
LockNames == {"a", "b"}
LockValues == {1}

NoTxn == [kind |-> "none", snap |-> <<>>]

\* the points of the calls
AtIdle == <<"idle", "-">>
AtCreateDbs(name) == <<"create_db: dbs.write()", name>>
AtCreateArena(name) == <<"create_db: arena.write()", name>>
AtOpenDbs(name) == <<"open_db: dbs.read()", name>>
AtBeginArena(kind) == <<"new: arena.read()", kind>>
AtBeginCopy(kind) == <<"new: iter().map().collect()", kind>>
AtCommitArena == <<"commit: arena.write()", "-">>
AtCommitLoop == <<"commit: for", "-">>
AtSerArena(call) == <<"serialize: arena.read()", call>>
AtSerDbs(call) == <<"serialize: dbs.read()", call>>

\* the guards a thread at a point holds
HoldsDbsWrite(at) == at[1] = "create_db: arena.write()"
HoldsArenaWrite(at) == at[1] = "commit: for"
HoldsArenaRead(at) == at[1] \in {"new: iter().map().collect()", "serialize: dbs.read()"}

\* a read() of the arena that does not wait for the writer
arena_read_Unlocked(pc, t) == TRUE

\* RwLock::read / RwLock::write on self.arena and self.dbs
arena_read(pc, t) == \A u \in LockThreads \ {t} : ~HoldsArenaWrite(pc[u])
arena_write(pc, t) ==
    \A u \in LockThreads \ {t} : ~HoldsArenaWrite(pc[u]) /\ ~HoldsArenaRead(pc[u])
dbs_read(pc, t) == \A u \in LockThreads \ {t} : ~HoldsDbsWrite(pc[u])
dbs_write(pc, t) == \A u \in LockThreads \ {t} : ~HoldsDbsWrite(pc[u])

\* what serialize writes: the value of every named database
LockView(d, a) == [n \in DOMAIN d |-> a[d[n]]]

LockInit ==
    /\ lpc = [t \in LockThreads |-> AtIdle]
    /\ ltxn = [t \in LockThreads |-> NoTxn]
    /\ lpend = [t \in LockThreads |-> {}]
    /\ larena = <<>>
    /\ ldbs = EmptyIndex
    /\ ldisk = EmptyIndex
    /\ lbase = <<>>
    /\ lseen = [t \in LockThreads |-> {}]

\* a thread calls create_db, open_db, begin_ro_txn, begin_rw_txn, commit or
\* sync and reaches the call's first lock; open_db returns DbsIllegalOpen
\* before it while a read transaction is live
LockCall(t, at) ==
    /\ lpc[t] = AtIdle
    /\ at[1] = "new: arena.read()" => ltxn[t].kind = "none"
    /\ at[1] = "open_db: dbs.read()" => \A u \in LockThreads : ltxn[u].kind # "ro"
    /\ at = AtCommitArena => ltxn[t].kind = "rw"
    /\ at = AtSerArena("sync") \/ at = AtCommitArena
            \/ (\E n \in LockNames : at = AtCreateDbs(n) \/ at = AtOpenDbs(n))
            \/ (\E k \in {"ro", "rw"} : at = AtBeginArena(k))
    /\ lpc' = [lpc EXCEPT ![t] = at]
    /\ UNCHANGED <<ltxn, lpend, larena, ldbs, ldisk, lbase, lseen>>
    /\ UNCHANGED exceptLock

\* create_db: let mut dbs = self.dbs.write()
CreateLockDbs(t, name) ==
    /\ lpc[t] = AtCreateDbs(name)
    /\ dbs_write(lpc, t)
    /\ lpc' = [lpc EXCEPT ![t] = AtCreateArena(name)]
    /\ UNCHANGED <<ltxn, lpend, larena, ldbs, ldisk, lbase, lseen>>
    /\ UNCHANGED exceptLock

\* create_db: let mut arena = self.arena.write(); entry(key).or_insert_with(
\* || arena.alloc(..)); both guards are dropped at the return
CreateLockArena(t, name) ==
    /\ lpc[t] = AtCreateArena(name)
    /\ arena_write(lpc, t)
    /\ lpc' = [lpc EXCEPT ![t] = AtIdle]
    /\ IF name \in DOMAIN ldbs
       THEN UNCHANGED <<larena, ldbs, lbase, lseen>>
       ELSE /\ larena' = Append(larena, 0)
            /\ ldbs' = Upd(ldbs, name, Len(larena) + 1)
            /\ lbase' = Append(lbase, 0)
            /\ lseen' = [u \in LockThreads |->
                            IF lpc[u][1] = "new: iter().map().collect()"
                            THEN lseen[u] \cup {Append(lbase, 0)} ELSE lseen[u]]
    /\ UNCHANGED <<ltxn, lpend, ldisk>>
    /\ UNCHANGED exceptLock

\* open_db: self.dbs.read(), the lookup, and the guard's drop at the return
OpenLockDbs(t, name) ==
    /\ lpc[t] = AtOpenDbs(name)
    /\ dbs_read(lpc, t)
    /\ lpc' = [lpc EXCEPT ![t] = AtIdle]
    /\ UNCHANGED <<ltxn, lpend, larena, ldbs, ldisk, lbase, lseen>>
    /\ UNCHANGED exceptLock

\* RoTransactionImpl::new / RwTransactionImpl::new: env.dbs()?
BeginLockArena(t, kind) ==
    /\ lpc[t] = AtBeginArena(kind)
    /\ arena_read(lpc, t)
    /\ lpc' = [lpc EXCEPT ![t] = AtBeginCopy(kind)]
    /\ ltxn' = [ltxn EXCEPT ![t] = NoTxn]
    /\ lseen' = [lseen EXCEPT ![t] = {lbase}]
    /\ UNCHANGED <<lpend, larena, ldbs, ldisk, lbase>>
    /\ UNCHANGED exceptLock

\* .iter().map(|(_, db)| (*db.id(), db.snapshot())): the next database is copied
BeginCopy(t, kind) ==
    /\ lpc[t] = AtBeginCopy(kind)
    /\ Len(ltxn[t].snap) < Len(larena)
    /\ ltxn' = [ltxn EXCEPT ![t].snap = Append(@, larena[Len(@) + 1])]
    /\ UNCHANGED <<lpc, lpend, larena, ldbs, ldisk, lbase, lseen>>
    /\ UNCHANGED exceptLock

\* .collect(): the guard is dropped and the transaction is returned
BeginDone(t, kind) ==
    /\ lpc[t] = AtBeginCopy(kind)
    /\ Len(ltxn[t].snap) >= Len(larena)
    /\ lpc' = [lpc EXCEPT ![t] = AtIdle]
    /\ ltxn' = [ltxn EXCEPT ![t].kind = kind]
    /\ UNCHANGED <<lpend, larena, ldbs, ldisk, lbase, lseen>>
    /\ UNCHANGED exceptLock

\* RwTransactionImpl::put on the transaction's own snapshot
LockPut(t, id, v) ==
    /\ lpc[t] = AtIdle
    /\ ltxn[t].kind = "rw"
    /\ id \in DOMAIN ltxn[t].snap
    /\ ltxn[t].snap[id] # v
    /\ ltxn' = [ltxn EXCEPT ![t].snap[id] = v]
    /\ UNCHANGED <<lpc, lpend, larena, ldbs, ldisk, lbase, lseen>>
    /\ UNCHANGED exceptLock

\* abort, or the drop of a transaction
LockEnd(t) ==
    /\ lpc[t] = AtIdle
    /\ ltxn[t].kind # "none"
    /\ ltxn' = [ltxn EXCEPT ![t] = NoTxn]
    /\ lseen' = [lseen EXCEPT ![t] = {}]
    /\ UNCHANGED <<lpc, lpend, larena, ldbs, ldisk, lbase>>
    /\ UNCHANGED exceptLock

\* commit: let mut dbs = self.env.dbs_mut()?
CommitLockArena(t) ==
    /\ lpc[t] = AtCommitArena
    /\ arena_write(lpc, t)
    /\ lpc' = [lpc EXCEPT ![t] = AtCommitLoop]
    /\ lpend' = [lpend EXCEPT ![t] = DOMAIN ltxn[t].snap]
    /\ UNCHANGED <<ltxn, larena, ldbs, ldisk, lbase, lseen>>
    /\ UNCHANGED exceptLock

\* for (id, snapshot) in self.snapshots { db.replace(snapshot) }: one turn of
\* the loop, the HashMap's ids in any order
CommitReplace(t, id) ==
    /\ lpc[t] = AtCommitLoop
    /\ id \in lpend[t]
    /\ larena' = [larena EXCEPT ![id] = ltxn[t].snap[id]]
    /\ lpend' = [lpend EXCEPT ![t] = @ \ {id}]
    /\ UNCHANGED <<lpc, ltxn, ldbs, ldisk, lbase, lseen>>
    /\ UNCHANGED exceptLock

\* drop(dbs) after the loop; self.env.write_to_disk() is next
CommitDrop(t) ==
    /\ lpc[t] = AtCommitLoop
    /\ lpend[t] = {}
    /\ lpc' = [lpc EXCEPT ![t] = AtSerArena("commit")]
    /\ ltxn' = [ltxn EXCEPT ![t] = NoTxn]
    /\ lbase' = larena
    /\ lseen' = [u \in LockThreads |->
                    IF lpc[u][1] = "new: iter().map().collect()"
                    THEN lseen[u] \cup {larena}
                    ELSE IF u = t THEN {} ELSE lseen[u]]
    /\ UNCHANGED <<lpend, larena, ldbs, ldisk>>
    /\ UNCHANGED exceptLock

\* serialize: let arena = self.arena.read()
SerLockArena(t, call) ==
    /\ lpc[t] = AtSerArena(call)
    /\ arena_read(lpc, t)
    /\ lpc' = [lpc EXCEPT ![t] = AtSerDbs(call)]
    /\ UNCHANGED <<ltxn, lpend, larena, ldbs, ldisk, lbase, lseen>>
    /\ UNCHANGED exceptLock

\* serialize: let dbs = self.dbs.read(); the data is collected and written,
\* and both guards are dropped
SerLockDbs(t, call) ==
    /\ lpc[t] = AtSerDbs(call)
    /\ dbs_read(lpc, t)
    /\ lpc' = [lpc EXCEPT ![t] = AtIdle]
    /\ ldisk' = LockView(ldbs, larena)
    /\ UNCHANGED <<ltxn, lpend, larena, ldbs, lbase, lseen>>
    /\ UNCHANGED exceptLock

LockPoints ==
    {AtCommitArena, AtSerArena("sync")}
        \cup {AtCreateDbs(n) : n \in LockNames} \cup {AtOpenDbs(n) : n \in LockNames}
        \cup {AtBeginArena(k) : k \in {"ro", "rw"}}

LockNext ==
    \/ \E t \in LockThreads, at \in LockPoints : LockCall(t, at)
    \/ \E t \in LockThreads, name \in LockNames : CreateLockDbs(t, name)
    \/ \E t \in LockThreads, name \in LockNames : CreateLockArena(t, name)
    \/ \E t \in LockThreads, name \in LockNames : OpenLockDbs(t, name)
    \/ \E t \in LockThreads, kind \in {"ro", "rw"} : BeginLockArena(t, kind)
    \/ \E t \in LockThreads, kind \in {"ro", "rw"} : BeginCopy(t, kind)
    \/ \E t \in LockThreads, kind \in {"ro", "rw"} : BeginDone(t, kind)
    \/ \E t \in LockThreads, id \in 1..Cardinality(LockNames), v \in LockValues : LockPut(t, id, v)
    \/ \E t \in LockThreads : LockEnd(t)
    \/ \E t \in LockThreads : CommitLockArena(t)
    \/ \E t \in LockThreads, id \in 1..Cardinality(LockNames) : CommitReplace(t, id)
    \/ \E t \in LockThreads : CommitDrop(t)
    \/ \E t \in LockThreads, call \in {"commit", "sync"} : SerLockArena(t, call)
    \/ \E t \in LockThreads, call \in {"commit", "sync"} : SerLockDbs(t, call)

(***************************************************************************)
(* Specifications: each runs one component and leaves the others as        *)
(* constructed.                                                            *)
(***************************************************************************)
GetIdle == backend = "safe" /\ table = EmptyIndex /\ glast = GetCall("open", 1, Ok(None))

Init == SafeInit /\ MgrInit /\ GetIdle /\ OpenInit /\ CodecInit /\ MigInit /\ SqlInit /\ BldInit /\ StInit /\ ConInit /\ LockInit

InitGet == SafeInit /\ MgrInit /\ GetInit /\ OpenInit /\ CodecInit /\ MigInit /\ SqlInit /\ BldInit /\ StInit /\ ConInit /\ LockInit

Spec == Init /\ [][SafeNext]_vars

SpecManager == Init /\ [][MgrNext]_vars

SpecGet == InitGet /\ [][GetNext]_vars

SpecEnv == Init /\ [][EnvNext]_vars

SpecDup == Init /\ [][DupNext]_vars

SpecOpen == Init /\ [][OpenNext]_vars

SpecCodec == Init /\ [][CodecNext]_vars

SpecMigrate == Init /\ [][MigNext]_vars

SpecSql == Init /\ [][SqlNext]_vars

SpecBuilder == Init /\ [][BldNext]_vars

SpecStores == Init /\ [][StNext]_vars

SpecFile == Init /\ [][FileNext]_vars

SpecLocks == Init /\ [][LockNext]_vars

SpecShared == Init /\ [][ConNext]_vars

\* a thread whose recv() can return does return
SqlFairness ==
    \A t \in SqlThreads :
        /\ WF_vars(\E kind \in TxnKinds, begin \in Outcomes : SqlRecv(t, kind, begin))
        /\ WF_vars(\E create \in Outcomes : SqlCreateDb(t, create))

SpecSqlLive == Init /\ [][SqlNext]_vars /\ SqlFairness

(***************************************************************************)
(* Properties of the safe-mode engine                                      *)
(***************************************************************************)
Live(w) == wst[w] = "live"

\* C1: every read transaction sees, in every database it captured, by get and
\* by iteration, exactly the state produced by the write transactions that
\* committed successfully before it began.
C1_SnapshotIsolation ==
    \A r \in Readers : rst[r] = "live" =>
        \A id \in DOMAIN rsnap[r] :
            /\ Snapshot_iter(rsnap[r][id]) = Snapshot_iter(rbase[r][id])
            /\ \A k \in Keys : txn_get(rsnap[r], id, k) = txn_get(rbase[r], id, k)

\* a put, delete or clear of write transaction w
WriteStep(w) ==
    \/ \E id \in 1..Cardinality(DbNames), k \in Keys, v \in Values : RwPut(w, id, k, v)
    \/ \E id \in 1..Cardinality(DbNames), k \in Keys,
          v \in {None} \cup {Some(x) : x \in Values} : RwDel(w, id, k, v)
    \/ \E id \in 1..Cardinality(DbNames) : RwClear(w, id)

\* C2: the puts, deletes and clears of a write transaction and its abort (or
\* drop) leave the committed state of every database, the name index and the
\* file unchanged, so a reader begun after the abort sees what a reader begun
\* before the transaction saw: a step that changes any of them is not a put,
\* delete, clear or abort of any write transaction.
C2_AbortLeavesCommittedState ==
    [][(take_snapshots(arena') # take_snapshots(arena) \/ dbs' # dbs \/ disk' # disk) =>
            \A w \in Writers : ~(WriteStep(w) \/ RwAbort(w))]_vars

\* a write transaction that had written was aborted
C2_Witness == last.op = "abort" /\ last.n > 0 /\ arena # <<>>

\* the last logged operation of `log` that wrote key k of database id, if any
LastOn(log, id, k) ==
    LET hits == {i \in DOMAIN log : log[i].db = id /\ (log[i].op = "clear" \/ log[i].key = k)}
    IN IF hits = {} THEN None ELSE Some(log[CHOOSE i \in hits : \A j \in hits : j <= i])

\* C3: in a Single store, get(k) inside a write transaction returns the value
\* of the transaction's most recent put(k, v), None when its most recent
\* operation on k was a successful delete or a clear, and otherwise the value
\* the transaction found at its begin; the key never holds two values.
C3_ReadYourWrites ==
    \A w \in Writers : Live(w) =>
        \A id \in DOMAIN wsnap[w] : DUP_SORT \notin wsnap[w][id].flags =>
            \A k \in Keys :
                LET e == LastOn(wlog[w], id, k) IN
                /\ txn_get(wsnap[w], id, k) =
                        IF e = None THEN txn_get(wbase[w], id, k)
                        ELSE IF e[1].op = "put" THEN e[1].val
                        ELSE None
                /\ k \in DOMAIN wsnap[w][id].map => Cardinality(wsnap[w][id].map[k]) <= 1

\* a later put replaced a value that had been committed before the transaction began
C3_Witness ==
    \E w \in Writers : Live(w) /\
        \E id \in DOMAIN wsnap[w], k \in Keys :
            /\ DUP_SORT \notin wsnap[w][id].flags
            /\ txn_get(wbase[w], id, k) # None
            /\ txn_get(wsnap[w], id, k) # None
            /\ txn_get(wsnap[w], id, k) # txn_get(wbase[w], id, k)

\* C4: at no time are two write transactions live on the same environment.
C4_SingleWriter == Cardinality({w \in Writers : Live(w)}) <= 1

\* C5: a successful commit changes the committed state exactly as applying the
\* whole transaction to the state committed so far does; what the transaction
\* did not write, delete or clear keeps its value.
C5_NoLostCommit ==
    [][\A w \in Writers : RwCommit(w, "ok") => arena' = ApplyLog(arena, wlog[w])]_vars

\* C6: a commit that returns an error leaves the state that later
\* transactions observe as it was.
C6_FailedCommitInvisible ==
    [][\A w \in Writers : RwCommit(w, "err") =>
            take_snapshots(arena') = take_snapshots(arena)]_vars

\* the file decodes, in whatever order its entries are met, to the names, flags
\* and contents the environment holds
Durable ==
    /\ disk # NoFile
    /\ \A order \in Orders(Len(disk[1])) :
            View(deserialize(disk[1], order).dbs, deserialize(disk[1], order).arena)
                = View(dbs, arena)

\* C7: after a commit returned success the file holds the committed state:
\* opening an environment from it yields the same database names, each with
\* the same flags and contents, in whatever order the entries are loaded; and
\* an environment opened from a file holds what the file decodes to.
C7_PersistenceRoundTrip ==
    ((last.op = "commit" /\ last.res = "ok") \/ (last.op = "open" /\ disk # NoFile)) => Durable

\* an environment holding a Single and a Multi store with contents was opened from the file
C7_Witness ==
    /\ last.op = "open"
    /\ Cardinality(DOMAIN dbs) = 2
    /\ \E n \in DOMAIN dbs : Snapshot_iter(arena[dbs[n]]) # {}

(***************************************************************************)
(* Properties of the manager                                               *)
(***************************************************************************)
\* the Rkvs constructors have built for a canonical path
BuiltFor(c) == {h \in DOMAIN rkvs : rkvs[h].path = c}

\* C8: the manager holds at most one handle per canonical path: every
\* get_or_create and get_or_create_with_capacity on a path returns the handle
\* of the first successful call, whatever the constructor would have built;
\* the constructor is invoked only on a miss; get returns None exactly when no
\* get_or_create has succeeded for the canonical path, and never inserts.
C8_OneHandlePerPath ==
    /\ DOMAIN stores \subseteq CanonPaths
    /\ \A c \in CanonPaths :
          /\ Cardinality(given[c]) <= 1
          /\ Cardinality(BuiltFor(c)) <= 1
          /\ c \in DOMAIN stores <=> BuiltFor(c) # {}
          /\ c \in DOMAIN stores => BuiltFor(c) = {stores[c]} /\ given[c] \subseteq {stores[c]}
    /\ mlast.invoked => ~mlast.hit
    /\ (mlast.hit /\ mlast.op # "get") =>
          /\ ~mlast.invoked
          /\ mlast.res[1] = "ok"
          /\ mlast.res[2] = mlast.before[canonicalize(mlast.path)[1]]
          /\ stores = mlast.before
    /\ (mlast.op = "get" /\ canonicalize(mlast.path) # None) =>
          /\ mlast.res[1] = "ok"
          /\ mlast.res[2] = None <=> BuiltFor(canonicalize(mlast.path)[1]) = {}
          /\ stores = mlast.before

\* a call with a capacity, through an alias of the path, has hit a handle that
\* was built with another capacity
C8_Witness ==
    /\ mlast.op = "get_or_create_with_capacity"
    /\ mlast.hit
    /\ mlast.path # canonicalize(mlast.path)[1]
    /\ mlast.res[1] = "ok"
    /\ rkvs[mlast.res[2]].capacity # mlast.cap
    /\ ctorRuns[canonicalize(mlast.path)[1]] = 1

\* C9: when the constructor handed to get_or_create or
\* get_or_create_with_capacity fails on a miss, the call returns the
\* constructor's error unchanged and the map is as it was before the call: a
\* later get of the path returns None and a later get_or_create invokes its
\* constructor again.
C9_FailedConstructorInsertsNothing ==
    (mlast.invoked /\ mlast.ctor # "ok") =>
        /\ mlast.res[1] = "err"
        /\ mlast.res[2] = mlast.ctor
        /\ stores = mlast.before
        /\ Manager_get(stores, mlast.path)[1] = "ok"
        /\ Manager_get(stores, mlast.path)[2] = None
        /\ ~Occupied(stores, canonicalize(mlast.path)[1])

\* a constructor has failed on a path whose constructor had failed before,
\* while the map holds another path
C9_Witness ==
    /\ mlast.invoked
    /\ mlast.ctor # "ok"
    /\ ctorRuns[canonicalize(mlast.path)[1]] >= 2
    /\ stores # EmptyIndex

(***************************************************************************)
(* Properties of the read path                                             *)
(***************************************************************************)
\* C10: a get of a key that is not in the store returns Ok(None), not an
\* error, on every backend.
C10_MissingKeyIsNone ==
    (glast.op = "get" /\ glast.key \notin DOMAIN table) =>
        /\ glast.res[1] = "ok"
        /\ glast.res[2] = None

(***************************************************************************)
(* Properties of delete                                                    *)
(***************************************************************************)
\* C11: on every backend a delete of a key that has no value in the
\* transaction's view fails with KeyValuePairNotFound and leaves the view
\* unchanged, and a delete succeeds only for a key that has a value.
C11_DeleteMissingKeyFails ==
    glast.op = "delete" =>
        IF glast.key \in DOMAIN glast.before
        THEN glast.res[1] = "ok"
        ELSE /\ glast.res[1] = "err"
             /\ glast.res[2] = "KeyValuePairNotFound"
             /\ table = glast.before

(***************************************************************************)
(* Properties of put with write flags                                      *)
(***************************************************************************)
\* C20: a put with the NO_OVERWRITE write flag on a key that already has a
\* value fails with KeyExists and leaves the stored value unchanged; the
\* flag is never silently ignored.
C20_NoOverwriteIsHonoured ==
    (glast.op = "put_with_flags" /\ NO_OVERWRITE \in glast.flags
         /\ glast.key \in DOMAIN glast.before) =>
        /\ glast.res[1] = "err"
        /\ glast.res[2] = "KeyExists"
        /\ table = glast.before

(***************************************************************************)
(* Properties of iteration                                                 *)
(***************************************************************************)
\* the (key, value) pairs a store holds from key `from` on
PairsFrom(t, from) ==
    {<<k, Ok(Some(from_tagged_slice(t[k])[2]))>> : k \in {x \in DOMAIN t : x >= from}}

\* the keys of the rows are strictly ascending
Ascending(rows) == \A i, j \in DOMAIN rows : i < j => rows[i][1] < rows[j][1]

\* C14: iter_start on a Single store returns no error and yields every
\* (key, value) pair of the view exactly once, in ascending key order,
\* whatever the order of the puts, on every backend; on an empty store it
\* yields nothing.
C14_IterStartAscending ==
    glast.op = "iter_start" =>
        /\ glast.res[1] = "ok"
        /\ Ascending(glast.res[2])
        /\ SeqToSet(glast.res[2]) = PairsFrom(table, 1)

\* C15: iter_from(k) yields only the pairs whose key is greater than or equal
\* to k, all of them, in ascending order, whether or not k is stored; on an
\* empty store it yields nothing.
C15_IterFromAscending ==
    glast.op = "iter_from" =>
        /\ glast.res[1] = "ok"
        /\ Ascending(glast.res[2])
        /\ SeqToSet(glast.res[2]) = PairsFrom(table, glast.key)

(***************************************************************************)
(* Properties of DUP_SORT databases                                        *)
(***************************************************************************)
KeyOrders == Orders(Cardinality(Keys))

RECURSIVE Snapshot_iter_seq(_, _)
\* Snapshot::iter as a sequence: the keys in the hash map's order ks, under
\* each key its BTreeSet of values in ascending order
Snapshot_iter_seq(s, ks) ==
    IF ks = <<>> THEN <<>>
    ELSE [i \in 1..Cardinality(s.map[Head(ks)]) |->
              <<Head(ks), SortedSeq(s.map[Head(ks)])[i]>>]
         \o Snapshot_iter_seq(s, Tail(ks))

\* the cursor's iter_dup_of(key): only the rows of key
iter_dup_of(s, ks, key) == SelectSeq(Snapshot_iter_seq(s, ks), LAMBDA row : row[1] = key)

\* MultiStore::get: the values the cursor's iter_dup_of(k) yields
MultiStore_get(s, ks, key) ==
    [i \in DOMAIN iter_dup_of(s, ks, key) |-> iter_dup_of(s, ks, key)[i][2]]

\* MultiStore::get_first: the transaction's get
MultiStore_get_first(s, key) == Snapshot_get(s, key)

\* the last logged operation of `log` that wrote the pair (k, v) of database
\* id, if any: a put of (k, v), a delete of (k, v) or of k, or a clear
LastTouch(log, id, k, v) ==
    LET hits == {i \in DOMAIN log :
                    /\ log[i].db = id
                    /\ \/ log[i].op = "clear"
                       \/ log[i].key = k /\ log[i].val \in {None, Some(v)}}
    IN IF hits = {} THEN None ELSE Some(log[CHOOSE i \in hits : \A j \in hits : j <= i])

\* the values of key k of database id that write transaction w found at its
\* begin or has put, and has not deleted since
PutNotDeleted(w, id, k) ==
    {v \in Values :
        IF LastTouch(wlog[w], id, k, v) = None
        THEN <<k, v>> \in Snapshot_iter(wbase[w][id])
        ELSE LastTouch(wlog[w], id, k, v)[1].op = "put"}

\* C12: in a DUP_SORT database, after any sequence of puts and deletes the
\* values under a key are exactly the distinct values put and not deleted;
\* get(k) yields them in ascending order, each once, and get_first(k)
\* returns the smallest of them.
C12_DupSortIsOrderedSet ==
    \A w \in Writers : Live(w) =>
        \A id \in DOMAIN wsnap[w] : DUP_SORT \in wsnap[w][id].flags =>
            \A k \in Keys, rank \in KeyOrders :
                LET got == MultiStore_get(wsnap[w][id],
                                          KeysBy(DOMAIN wsnap[w][id].map, rank), k)
                IN /\ SeqToSet(got) = PutNotDeleted(w, id, k)
                   /\ \A i, j \in DOMAIN got : i < j => got[i] < got[j]
                   /\ MultiStore_get_first(wsnap[w][id], k) =
                        IF PutNotDeleted(w, id, k) = {} THEN None
                        ELSE Some(MinOf(PutNotDeleted(w, id, k)))

\* a key of a DUP_SORT database holds two values after the same pair was put
\* twice, the larger value first
C12_Witness ==
    \E w \in Writers : Live(w) /\
        \E id \in DOMAIN wsnap[w], k \in Keys :
            /\ DUP_SORT \in wsnap[w][id].flags
            /\ k \in DOMAIN wsnap[w][id].map
            /\ Cardinality(wsnap[w][id].map[k]) = 2
            /\ \E i, j \in DOMAIN wlog[w] :
                    /\ i < j
                    /\ wlog[w][i] = wlog[w][j]
                    /\ wlog[w][i].op = "put" /\ wlog[w][i].db = id /\ wlog[w][i].key = k
            /\ wlog[w][1].val = Some(2)

\* C13: in a DUP_SORT database, delete(k, v) removes exactly the pair (k, v)
\* and leaves every other value of k, every other key and every other
\* database of the transaction unchanged; when the pair is not present it
\* fails with KeyValuePairNotFound and changes nothing.
C13_DeleteExactPair ==
    [][\A w \in Writers, id \in 1..Cardinality(DbNames), k \in Keys, v \in Values :
          (RwDel(w, id, k, Some(v)) /\ DUP_SORT \in wsnap[w][id].flags) =>
              IF <<k, v>> \in Snapshot_iter(wsnap[w][id])
              THEN /\ txn_del(wsnap[w], id, k, Some(v)).ok
                   /\ Snapshot_iter(wsnap'[w][id]) = Snapshot_iter(wsnap[w][id]) \ {<<k, v>>}
                   /\ \A other \in (DOMAIN wsnap[w]) \ {id} : wsnap'[w][other] = wsnap[w][other]
              ELSE /\ ~txn_del(wsnap[w], id, k, Some(v)).ok
                   /\ wsnap' = wsnap
                   /\ wlog' = wlog]_vars

\* the transaction's last write deleted one of two values of a key of a
\* DUP_SORT database, and the other value is still there
C13_Witness ==
    \E w \in Writers : Live(w) /\ wlog[w] # <<>> /\
        LET e == wlog[w][Len(wlog[w])] IN
        /\ e.op = "del"
        /\ e.val # None
        /\ e.db \in DOMAIN wsnap[w]
        /\ DUP_SORT \in wsnap[w][e.db].flags
        /\ \E u \in Values : u # e.val[1] /\ wsnap[w][e.db].map[e.key] = {u}

(***************************************************************************)
(* Properties of the environment's database calls                          *)
(***************************************************************************)
\* C16: on a safe-mode environment open_db and create_db fail with
\* DbsIllegalOpen whenever at least one read transaction is live, leaving
\* the name index and the arena unchanged, and do not fail so once every
\* read transaction has ended.
C16_NoOpenWhileReading ==
    last.op \in {"create_db", "open_db"} =>
        IF last.n > 0
        THEN /\ last.res[1] = "err"
             /\ last.res[2] = "DbsIllegalOpen"
             /\ dbs = last.dbs
             /\ arena = last.arena
        ELSE ~(last.res[1] = "err" /\ last.res[2] = "DbsIllegalOpen")

\* C18: creating a database under a name that already exists, with flags
\* different from those it was created with, returns an error and leaves
\* the database's flags and contents unchanged.
C18_FlagsAreImmutable ==
    (/\ last.op = "create_db"
     /\ last.who \in DOMAIN last.dbs
     /\ last.arena[last.dbs[last.who]].flags # last.flags) =>
        /\ last.res[1] = "err"
        /\ dbs = last.dbs
        /\ arena = last.arena

\* C19: in a safe-mode transaction, get, put, del, clear_db and
\* open_ro_cursor with the handle of a database the transaction did not
\* capture at its begin (a handle of another environment, or of a database
\* created after the begin) fail with DbIsForeignError and change nothing,
\* and a later commit of the transaction leaves every database it did not
\* capture unchanged.
C19_UncapturedIsForeign ==
    /\ [](last.op \in TxnOps =>
            /\ last.res[1] = "err"
            /\ last.res[2] = "DbIsForeignError"
            /\ last.who \in Writers => wsnap[last.who] = last.before
            /\ last.who \in Readers => rsnap[last.who] = last.before)
    /\ [][\A w \in Writers : RwCommit(w, "ok") =>
            \A id \in (DOMAIN arena) \ (DOMAIN wsnap[w]) : arena'[id] = arena[id]]_vars

\* a write transaction that captured a database made a call with the handle
\* of a database created in its environment after it began
C19_Witness ==
    /\ last.op \in TxnOps
    /\ last.who \in Writers
    /\ last.handle.env = "this"
    /\ last.before # <<>>
    /\ last.handle.idx \in DOMAIN arena

(***************************************************************************)
(* Properties of opening a store during a transaction                      *)
(***************************************************************************)
\* C17: open or open_or_create on a thread that holds a live transaction
\* returns OpenAttemptedDuringTransaction; it does not succeed or block, and
\* the live transactions stay as they were.
C17_OpenDuringTransactionFails ==
    (olast.op \in {"open", "open_or_create"} /\ olast.live # {}) =>
        /\ olast.res[1] = "err"
        /\ olast.res[2] = "OpenAttemptedDuringTransaction"
        /\ oreaders = olast.readers
        /\ owriter = olast.writer

(***************************************************************************)
(* Properties of the value codec                                           *)
(***************************************************************************)
\* the variants and tags of the tag table
TagTable ==
    [Bool |-> 1, U64 |-> 2, I64 |-> 3, F64 |-> 4, Instant |-> 5, Uuid |-> 6, Str |-> 7,
     Json |-> 8, Blob |-> 9]

\* C21: for every Value of every variant (Bool, U64, I64, F64, Instant, Uuid,
\* Str, Json, Blob) encoding succeeds and decoding the encoded bytes returns
\* a value equal to it.
C21_CodecRoundTrip ==
    clast.op = "round_trip" =>
        /\ DOMAIN TagTable \subseteq TypeNames
        /\ clast.res[1] = "ok"
        /\ clast.res[2] = clast.value[1]

\* C22: decoding dispatches on the first byte as the tag table says: an empty
\* input fails with Empty, a first byte outside 1..9 fails with UnknownType,
\* every tag from 1 to 9 is accepted and selects its variant, a Uuid-tagged
\* value whose payload is not exactly 16 bytes fails with InvalidUuid, and
\* one of exactly 16 bytes decodes to that Uuid.
C22_DecodeDispatch ==
    clast.op = "from_tagged_slice" =>
        IF clast.bytes = <<>>
        THEN clast.res[1] = "err" /\ clast.res[2] = "DataError::Empty"
        ELSE IF Head(clast.bytes) \notin 1..9
        THEN clast.res[1] = "err" /\ clast.res[2] = "DataError::UnknownType"
        ELSE /\ ~(clast.res[1] = "err" /\ clast.res[2] = "DataError::UnknownType")
             /\ clast.res[1] = "ok" => TagTable[clast.res[2].type] = Head(clast.bytes)
             /\ Head(clast.bytes) = 6 =>
                    IF Len(clast.bytes) - 1 = 16
                    THEN /\ clast.res[1] = "ok"
                         /\ clast.res[2] = [type |-> "Uuid", data |-> Tail(clast.bytes)]
                    ELSE clast.res[1] = "err" /\ clast.res[2] = "DataError::InvalidUuid"

\* C23: the typed decode fails with UnexpectedType exactly when the tag found
\* in the bytes differs from the expected tag, and decodes the value when
\* the tag equals the expected tag.
C23_TypedDecode ==
    (/\ clast.op = "expected_from_tagged_slice"
     /\ clast.bytes # <<>>
     /\ from_primitive(Head(clast.bytes)) # None) =>
        IF from_primitive(Head(clast.bytes)) # clast.expected
        THEN clast.res[1] = "err" /\ clast.res[2] = "DataError::UnexpectedType"
        ELSE /\ ~(clast.res[1] = "err" /\ clast.res[2] = "DataError::UnexpectedType")
             /\ clast.res = from_tagged_slice(clast.bytes)

(***************************************************************************)
(* Properties of the migrator                                              *)
(***************************************************************************)
\* a store's get on a committed environment: None for a key without a value,
\* else the decoded first value of the key (the only one in a Single store)
MigGet(env, name, key) ==
    IF {r \in env[name].rows : r[1] = key} = {} THEN Ok(None)
    ELSE read_transform(Ok(SortBytes({r[2] : r \in {x \in env[name].rows : x[1] = key}})[1]))

KeysOf(db) == {r[1] : r \in db.rows}

\* C24: after migrate returns success for a populated source and an empty
\* destination, the destination has exactly the source's database names, a
\* get of every key of every database returns in the destination what it
\* returns in the source, the destination has no extra key, and the source is
\* unchanged.
C24_MigrationCopies ==
    (mig.op = "migrate" /\ mig.res[1] = "ok" /\ mig.src # NoDbs /\ mig.dst = NoDbs) =>
        /\ DOMAIN mdst = DOMAIN mig.src
        /\ \A name \in DOMAIN mig.src :
              /\ name \in DOMAIN mdst
              /\ KeysOf(mdst[name]) \subseteq KeysOf(mig.src[name])
              /\ \A key \in MigKeys : MigGet(mdst, name, key) = MigGet(mig.src, name, key)
        /\ msrc = mig.src

\* C25: migrate fails with SourceEmpty when the source has no databases, and
\* with DestinationNotEmpty when the source has one and the destination
\* already has any database; in both cases the destination is left as it was.
C25_MigrateRefusals ==
    mig.op = "migrate" =>
        /\ mig.src = NoDbs => mig.res = Err("MigrateError::SourceEmpty")
        /\ (mig.src # NoDbs /\ mig.dst # NoDbs) =>
               mig.res = Err("MigrateError::DestinationNotEmpty")
        /\ mig.res[1] = "err" => mdst = mig.dst

\* an empty source met a destination that has a database, and the source
\* check won
C25_Witness ==
    /\ mig.op = "migrate"
    /\ mig.src = NoDbs
    /\ mig.dst # NoDbs
    /\ mig.res = Err("MigrateError::SourceEmpty")
    /\ mdst = mig.dst

\* every row of the environment decodes
AllDecode(env) ==
    \A name \in DOMAIN env : \A r \in env[name].rows : read_transform(Ok(r[2]))[1] = "ok"

\* C26: a codec or engine error met while migrate iterates a source database
\* or puts into the destination is returned as an error: migrate does not
\* panic, does not return success when a row of the source does not decode,
\* and leaves no destination database with only part of the source's keys.
C26_MigrateSurfacesErrors ==
    (mig.op = "migrate" /\ mig.src # NoDbs /\ mig.dst = NoDbs) =>
        /\ mig.res[1] # "panic"
        /\ mig.res[1] = "ok" => AllDecode(mig.src)
        /\ \A name \in DOMAIN mdst :
              \/ mdst[name].rows = {}
              \/ KeysOf(mdst[name]) = KeysOf(mig.src[name])

\* C27: migrate refuses a source database created with DUP_SORT or
\* INTEGER_KEY: it returns an error and does not copy that database into the
\* destination.
C27_MigrateRefusesFlags ==
    (mig.op = "migrate" /\ mig.dst = NoDbs) =>
        \A name \in DOMAIN mig.src :
            mig.src[name].flags # {} =>
                /\ mig.res[1] = "err"
                /\ name \in DOMAIN mdst => mdst[name].rows = {}


(***************************************************************************)
(* Properties of the SQL backend's connection                              *)
(***************************************************************************)
SqlHolders ==
    {t \in SqlThreads :
        sqtx[t] \in {Holding(k) : k \in TxnKinds}
                        \cup {Nested(k, c) : k \in TxnKinds, c \in SqlCalls}}

\* C28: on the SQL backend at most one transaction holds the connection at
\* any time, a thread in begin waits while a transaction is live, and every
\* way of ending a transaction (commit, abort, drop) puts the connection back
\* in the channel.
C28_ConnectionSerializes ==
    /\ Cardinality(SqlHolders) <= 1
    /\ SqlHolders # {} => sqchan = 0
    /\ sqlast.op \in {"commit", "abort", "drop"} => sqchan = 1


(***************************************************************************)
(* Properties of the environment builders                                  *)
(***************************************************************************)
\* the path holds no data of the backend
NoPriorData(b, node) ==
    IF b = "lmdb" THEN ~exists_in(node, "data.mdb") ELSE ~exists_in(node, "data.safe.bin")

\* C29: open with check-if-env-exists set on a path without prior data fails
\* with EnvironmentDoesNotExistError on the LMDB and the safe-mode backend;
\* open without the check and without make-dir-if-needed on a path that is
\* not a directory fails with DirectoryDoesNotExistError carrying the path;
\* in both cases nothing is created, whatever make-dir-if-needed says.
C29_OpenChecks ==
    blast.op = "open" =>
        /\ (blast.check_env_exists /\ NoPriorData(blast.backend, blast.before)) =>
               /\ blast.res = Err(<<"EnvironmentDoesNotExistError", blast.path>>)
               /\ fsys[blast.path] = blast.before
        /\ (~blast.check_env_exists /\ ~is_dir(blast.before) /\ ~blast.make_dir) =>
               /\ blast.res = Err(<<"DirectoryDoesNotExistError", blast.path>>)
               /\ fsys[blast.path] = blast.before


(***************************************************************************)
(* Properties of the opening of stores                                     *)
(***************************************************************************)
\* C30: opening a store without the create option under a name that was
\* never created returns an error, on every backend, and no open without
\* create brings a database into existence.
C30_OpenMissingStore ==
    slast.op = "open" =>
        /\ slast.name \notin slast.before => slast.res[1] = "err"
        /\ Existing(slast.backend, sdbs, lnames, qtables) = slast.before


(***************************************************************************)
(* Properties of deletion and of the file in safe mode                     *)
(***************************************************************************)
\* key k is absent from snapshot s in every way a transaction can observe
Gone(s, k) ==
    /\ Snapshot_get(s, k) = None
    /\ \A v \in Values : <<k, v>> \notin Snapshot_iter(s)
    /\ ~Snapshot_del_all(s, k).ok
    /\ \A v \in Values : ~Snapshot_del_exact(s, k, v).ok

\* the last write of `log` on key k of database id is a delete that left the
\* key without a value: a delete(k), or a delete(k, v) of its last value
Deleted(log, snaps, id, k) ==
    LET e == LastOn(log, id, k) IN
    /\ e # None
    /\ e[1].op = "del"
    /\ \A v \in Values : <<k, v>> \notin Snapshot_iter(snaps[id])

\* C31: after a successful delete(k), and after delete(k, v) removed the last
\* value of k, the key is absent in every observable way: get(k) is None,
\* iteration yields no pair for k and a second delete fails; a successful
\* commit hands that absence to the committed state, a reader begun on it
\* finds the key absent, and so does an environment opened again from a file
\* that holds the committed state.
C31_DeletedKeyIsAbsent ==
    [][/\ \A w \in Writers : wst'[w] = "live" =>
            \A id \in DOMAIN wsnap'[w], k \in Keys :
                Deleted(wlog'[w], wsnap'[w], id, k) =>
                    /\ Gone(wsnap'[w][id], k)
                    /\ ~txn_del(wsnap'[w], id, k, None).ok
                    /\ \A v \in Values : ~txn_del(wsnap'[w], id, k, Some(v)).ok
       /\ \A w \in Writers : RwCommit(w, "ok") =>
            \A id \in DOMAIN wsnap[w], k \in Keys :
                Deleted(wlog[w], wsnap[w], id, k) => Gone(arena'[id], k)
       /\ \A r \in Readers : BeginRo(r) =>
            \A id \in DOMAIN arena, k \in Keys :
                Gone(arena[id], k) => Gone(rsnap'[r][id], k)
       /\ \A order \in Orders(Cardinality(DbNames)) \cup Orders(1) \cup Orders(0) :
            (Reopen(order) /\ Durable) =>
                \A n \in DOMAIN dbs, k \in Keys :
                    Gone(arena[dbs[n]], k) =>
                        n \in DOMAIN dbs' /\ Gone(arena'[dbs'[n]], k)]_vars

\* an environment opened from its file holds a key whose value was deleted
\* by a committed transaction
C31_Witness ==
    /\ last.op = "open"
    /\ \E n \in DOMAIN dbs, k \in Keys :
            k \in DOMAIN arena[dbs[n]].map /\ arena[dbs[n]].map[k] = {}


\* C40: in a database without DUP_SORT, del(key, Some(value)) ignores the
\* value: when the key has a value, equal to the given one or not, the call
\* succeeds and removes the key and nothing else; when the key has no value
\* it fails with KeyValuePairNotFound and changes nothing.
C40_DeleteIgnoresValue ==
    \A w \in Writers : Live(w) =>
        \A id \in DOMAIN wsnap[w] : DUP_SORT \notin wsnap[w][id].flags =>
            \A k \in Keys, v \in Values :
                LET r == txn_del(wsnap[w], id, k, Some(v)) IN
                IF txn_get(wsnap[w], id, k) # None
                THEN /\ r.ok
                     /\ Snapshot_get(r.snap, k) = None
                     /\ Snapshot_iter(r.snap) =
                            {p \in Snapshot_iter(wsnap[w][id]) : p[1] # k}
                ELSE /\ ~r.ok
                     /\ Snapshot_iter(r.snap) = Snapshot_iter(wsnap[w][id])

\* the transaction put a value under a key of a database without DUP_SORT and
\* then deleted the key giving another value; the key is gone
C40_Witness ==
    \E w \in Writers : Live(w) /\ Len(wlog[w]) >= 2 /\
        LET e == wlog[w][Len(wlog[w])]
            p == wlog[w][Len(wlog[w]) - 1]
        IN /\ e.op = "del" /\ e.val # None
           /\ p.op = "put" /\ p.db = e.db /\ p.key = e.key /\ p.val # e.val
           /\ DUP_SORT \notin wsnap[w][e.db].flags
           /\ txn_get(wsnap[w], e.db, e.key) = None


\* the database names a file holds
FileNames(f) == IF f = NoFile THEN {} ELSE {f[1][i].name : i \in DOMAIN f[1]}

Ends == SelectSeq(sqlog, LAMBDA e : e.stmt \in {"COMMIT", "ROLLBACK"})

\* the connection's log is that of a write transaction
RwLog == sqlog # <<>> /\ sqlog[1] = Stmt("BEGIN", "rw", "ok")

NestedStates == {Nested(k, c) : k \in TxnKinds, c \in SqlCalls}

\* C33: a begin_ro_txn, begin_rw_txn or create_db made by a thread that holds
\* a live transaction on the environment returns: the thread does not stay
\* in the call for ever.
C33_NestedCallReturns ==
    \A t \in SqlThreads : (sqtx[t] \in NestedStates) ~> (sqtx[t] \notin NestedStates)

\* C36: the connection is never lost: whenever no transaction is live (and no
\* create_db is between its recv and its send) the channel holds the
\* connection, whatever the calls so far returned.
C36_ConnectionNeverLost == SqlHolders = {} => sqchan = 1


(***************************************************************************)
(* Properties of the shared manager                                        *)
(***************************************************************************)
\* the Rkvs built for canonical path c by the threads
SharedBuilt(c) == {h \in DOMAIN trkvs : trkvs[h] = c}

\* the handles threads hold for canonical path c
Received(c) ==
    {tres[t].res[2] : t \in {u \in MgrThreads :
        /\ tres[u].op = "get_or_create"
        /\ tres[u].canonical = Some(c)
        /\ tres[u].res[1] = "ok"}}
    \cup {tres[t].res[2][1] : t \in {u \in MgrThreads :
        /\ tres[u].op = "get"
        /\ tres[u].canonical = Some(c)
        /\ tres[u].res[1] = "ok"
        /\ tres[u].res[2] # None}}

\* C37: when threads call get_or_create for one path through the shared
\* manager, each under the write lock, the constructor builds the environment
\* once and never runs while the path has an entry, and every thread receives
\* the same handle; a get under the read lock never sees another one.
C37_SharedManagerBuildsOnce ==
    \A c \in CanonPaths :
        /\ Cardinality(SharedBuilt(c)) <= 1
        /\ Cardinality(Received(c)) <= 1
        /\ Received(c) \subseteq SharedBuilt(c)
        /\ c \in DOMAIN tstores => SharedBuilt(c) = {tstores[c]}
        /\ \A t \in MgrThreads : tpc[t] = InVacant(c) =>
                /\ c \notin DOMAIN tstores
                /\ SharedBuilt(c) = {}
                /\ \A u \in MgrThreads \ {t} : tpc[u] = Free

\* three threads hold the handle of one path: one built it, one found it by
\* get_or_create through another spelling of the path, one by get
C37_Witness ==
    \E c \in CanonPaths, t, u, v \in MgrThreads :
        /\ Received(c) # {}
        /\ tres[t].op = "get_or_create" /\ tres[t].canonical = Some(c) /\ tres[t].res[1] = "ok"
        /\ tres[u].op = "get_or_create" /\ tres[u].canonical = Some(c) /\ tres[u].res[1] = "ok"
        /\ tres[t].path # tres[u].path
        /\ tres[v].op = "get" /\ tres[v].canonical = Some(c) /\ tres[v].res = Ok(Some(tstores[c]))


(***************************************************************************)
(* Properties of the safe-mode environment's locks                         *)
(***************************************************************************)
\* C34: a read transaction that begins while a write transaction commits
\* holds, over all the databases, the arena as a completed commit (or
\* create_db) left it: every change of the commit or none, never one
\* database replaced and another not yet.
C34_AtomicVisibility ==
    \A t \in LockThreads : ltxn[t].kind = "ro" => ltxn[t].snap \in lseen[t]

\* a reader holds both databases as a commit left them while that commit,
\* by another thread, is still in write_to_disk and the file is behind
C34_Witness ==
    \E t, u \in LockThreads :
        /\ ltxn[t].kind = "ro"
        /\ ltxn[t].snap = <<1, 1>>
        /\ lpc[u] \in {AtSerArena("commit"), AtSerDbs("commit")}
        /\ ldisk # LockView(ldbs, larena)

\* thread t is at a lock that a guard held by thread u keeps it from taking
WaitsFor(t, u) ==
    /\ t # u
    /\ \/ lpc[t][1] = "create_db: dbs.write()" /\ HoldsDbsWrite(lpc[u])
       \/ lpc[t][1] = "create_db: arena.write()"
            /\ (HoldsArenaWrite(lpc[u]) \/ HoldsArenaRead(lpc[u]))
       \/ lpc[t][1] = "open_db: dbs.read()" /\ HoldsDbsWrite(lpc[u])
       \/ lpc[t][1] = "new: arena.read()" /\ HoldsArenaWrite(lpc[u])
       \/ lpc[t][1] = "commit: arena.write()"
            /\ (HoldsArenaWrite(lpc[u]) \/ HoldsArenaRead(lpc[u]))
       \/ lpc[t][1] = "serialize: arena.read()" /\ HoldsArenaWrite(lpc[u])
       \/ lpc[t][1] = "serialize: dbs.read()" /\ HoldsDbsWrite(lpc[u])

\* C35: no interleaving of create_db, open_db, begin_ro_txn, begin_rw_txn,
\* commit and sync by different threads deadlocks: the arena lock and the
\* name-index lock are never waited for in a cycle.
C35_NoLockCycle ==
    \A t, u \in LockThreads : ~(WaitsFor(t, u) /\ WaitsFor(u, t))


(***************************************************************************)
(* Properties of a migration that fails part-way                           *)
(***************************************************************************)
\* what a destination write transaction of its own commits for database n
CommittedCopy(n) ==
    {copy_rows(mig.dir[2], cursor_iter(mig.dir[1], mig.src[n], krank), {}, Huge).rows :
        krank \in KeyOrders2}

====
